---- MODULE Spec2Model ----
(***************************************************************************)
(* contain: a launcher that runs developer tools inside containers.        *)
(*                                                                         *)
(* The model follows src/src/main.rs.  It has two parts:                   *)
(*   - configuration resolution: load_config walking from the invoking     *)
(*     directory up to the filesystem root, one action per call of         *)
(*     load_config (the function is recursive, one call per directory);    *)
(*   - the lifecycle orchestration of one invocation (run, shell, up,      *)
(*     down, status) against a container engine, one action per engine     *)
(*     call.                                                               *)
(*                                                                         *)
(* A directory chain is a sequence of documents: fs[1] is the document of  *)
(* the filesystem root "/", fs[Len(fs)] that of the invoking directory.    *)
(* A path is an index into the chain.                                      *)
(***************************************************************************)
EXTENDS Integers, Sequences, FiniteSets, TLC

(***************************************************************************)
(* Bounds of the model.                                                    *)
(***************************************************************************)
\* longest directory chain explored by the resolution specification
MaxDepth == 3
\* longest directory chain explored by the invocation specification
MaxLaunchDepth == 2
\* how often one directory may be visited before the model stops counting
MaxVisits == 2

(***************************************************************************)
(* Program constants.                                                      *)
(***************************************************************************)
\* env!("CARGO_PKG_VERSION"), as a number: the version of the running binary
RunningVersion == 1
DEFAULT_SHELL == "/bin/bash"
\* the wildcard of the commands field
ANY == "any"

VARIABLES
    fs,         \* the directory chain: Seq of documents, root first
    sub,        \* subcommand of the invocation: run, shell, up, down, status
    dry,        \* GlobalOptions.dry_run
    inside,     \* what is_inside_container() answers for this process
    phase,      \* which call site of load_config is being served
    cmd,        \* the command argument of the running load_config
    pc,         \* position of the invocation
    path,       \* the path argument of the running load_config (index in fs)
    visits,     \* visits[d]: calls of load_config for directory d in the running walk
    walks,      \* number of walks (top-level calls of load_config) started so far
    marker,     \* the CONTAIN_ROOT_PATH variable of the process environment
    res,        \* what load_config returned (a Configuration or an Error)
    target,     \* the command handed to run_command
    container,  \* engine: state of the container named Configuration.name
    sibling,    \* engine: another running container whose name contains that name
    image,      \* engine: whether the configured image is present locally
    container0, \* the state of the named container when the invocation started
    ops,        \* engine operations issued so far, in order, with their results
    printed,    \* engine command lines printed by a dry run, in order
    result,     \* how the invocation ended
    prev,       \* the invocation before this one: its subcommand and result (of a
                \* repeated load_config: the first call, its result and what it left)
    host,       \* what is_inside_container reads: CONTAIN_PASSTHROUGH, the marker files
    options,    \* GlobalOptions, dry_run apart
    args,       \* the arguments of the target command
    environ,    \* the process environment of the launcher, CONTAIN_ROOT_PATH apart
    docker_args,\* the argument list of the last engine launch built
    sh_log,     \* the var commands handed to sh so far, in order, with what they gave
    peer        \* a second invocation running at the same time, while it is not the
                \* one taking a step: its own part of the state

vars == <<fs, sub, dry, inside, phase, cmd, pc, path, visits, walks, marker, res, target,
          container, sibling, image, container0, ops, printed, result, prev,
          host, options, args, environ, docker_args, sh_log, peer>>

engineVars == <<container, sibling, image>>
inputVars == <<fs, sub, dry, inside, container0, prev, host, options, args, peer>>

(***************************************************************************)
(* Strings, as the launcher handles them.                                  *)
(***************************************************************************)
\* str::find(ch): the first position of the character, 0 for None
RECURSIVE FindFrom(_, _, _)
FindFrom(s, ch, i) ==
    IF i > Len(s) THEN 0
    ELSE IF SubSeq(s, i, i) = ch THEN i
    ELSE FindFrom(s, ch, i + 1)
Find(s, ch) == FindFrom(s, ch, 1)

\* str::trim: without the white space at both ends
RECURSIVE TrimStart(_)
TrimStart(s) ==
    IF Len(s) > 0 /\ SubSeq(s, 1, 1) = " " THEN TrimStart(SubSeq(s, 2, Len(s))) ELSE s
RECURSIVE TrimEnd(_)
TrimEnd(s) ==
    IF Len(s) > 0 /\ SubSeq(s, Len(s), Len(s)) = " "
    THEN TrimEnd(SubSeq(s, 1, Len(s) - 1)) ELSE s
Trim(s) == TrimEnd(TrimStart(s))

\* char::to_lowercase, for the letters of the recognised words
LowerChar(c) ==
    CASE c = "T" -> "t" [] c = "R" -> "r" [] c = "U" -> "u" [] c = "E" -> "e"
      [] c = "Y" -> "y" [] c = "S" -> "s" [] c = "F" -> "f" [] c = "A" -> "a"
      [] c = "L" -> "l" [] c = "N" -> "n" [] c = "O" -> "o"
      [] OTHER -> c
RECURSIVE to_lowercase(_)
to_lowercase(s) ==
    IF Len(s) = 0 THEN s
    ELSE LowerChar(SubSeq(s, 1, 1)) \o to_lowercase(SubSeq(s, 2, Len(s)))

(***************************************************************************)
(* is_inside_container.  The host is the value of CONTAIN_PASSTHROUGH (if  *)
(* set) and the two marker files /.dockerenv and /run/.containerenv.       *)
(***************************************************************************)
Host(s, v, d, c) == [set |-> s, val |-> v, dockerenv |-> d, containerenv |-> c]

is_inside_container_files_first(h) ==
    IF h.dockerenv \/ h.containerenv THEN TRUE
    ELSE h.set /\ to_lowercase(h.val) \in {"1", "true", "yes"}
is_inside_container(h) ==
    IF h.set /\ to_lowercase(h.val) \in {"1", "true", "yes"} THEN TRUE
    ELSE IF h.set /\ to_lowercase(h.val) \in {"0", "false", "no"} THEN FALSE
    ELSE IF h.dockerenv THEN TRUE
    ELSE IF h.containerenv THEN TRUE
    ELSE FALSE

\* a host on which is_inside_container answers b, by the first marker file alone
HostOf(b) == Host(FALSE, "", b, FALSE)

\* the values of CONTAIN_PASSTHROUGH the model tries
PassthroughValues ==
    { "1", "true", "TRUE", "True", "yes", "YES", "0", "false", "False", "no", "No",
      "", "2", "on", "y", "truee", " 1", "off", "nope" }

Hosts ==
    { Host(FALSE, "", d, c) : d \in BOOLEAN, c \in BOOLEAN }
        \cup { Host(TRUE, v, d, c) : v \in PassthroughValues, d \in BOOLEAN, c \in BOOLEAN }

(***************************************************************************)
(* GlobalOptions (dry_run is the variable dry) and the process environment.*)
(***************************************************************************)
GlobalOptions(i, k, r, sp, sn, e) ==
    [interactive |-> i, keep_container |-> k, run_as_root |-> r,
     skip_ports |-> sp, skip_name |-> sn, cli_env_variables |-> e]

\* no flag given
DefaultOptions == GlobalOptions(FALSE, FALSE, FALSE, FALSE, FALSE, <<>>)

\* options.interactive(true) for shell, the -i flag for run
Interactive == sub = "shell" \/ options.interactive

\* the environment the launcher is started with
InitialEnv == [k \in {"HOME", "TAG"} |-> IF k = "HOME" THEN "/home/u" ELSE "old"]
set_var(e, k, v) == [x \in DOMAIN e \cup {k} |-> IF x = k THEN v ELSE e[x]]

\* passthrough_command: every -e value with a '=' is split at the first '='
RECURSIVE SetCliEnv(_, _)
SetCliEnv(items, e) ==
    IF items = <<>> THEN e
    ELSE LET env_var == Head(items)
             pos == Find(env_var, "=")
         IN SetCliEnv(Tail(items),
                      IF pos # 0
                      THEN set_var(e, SubSeq(env_var, 1, pos - 1),
                                   SubSeq(env_var, pos + 1, Len(env_var)))
                      ELSE e)

(***************************************************************************)
(* shellexpand::env, sh -c, and the var declarations of an entry.          *)
(***************************************************************************)
\* the characters of a variable name
NameChars ==
    { "A", "B", "C", "D", "E", "F", "G", "H", "I", "J", "K", "L", "M", "N", "O", "P",
      "Q", "R", "S", "T", "U", "V", "W", "X", "Y", "Z", "_",
      "a", "b", "c", "d", "e", "f", "g", "h", "i", "j", "k", "l", "m", "n", "o", "p",
      "q", "r", "s", "t", "u", "v", "w", "x", "y", "z",
      "0", "1", "2", "3", "4", "5", "6", "7", "8", "9" }

\* the length of the run of name characters of s that starts at position i
RECURSIVE NameLen(_, _)
NameLen(s, i) ==
    IF i <= Len(s) /\ SubSeq(s, i, i) \in NameChars THEN 1 + NameLen(s, i + 1) ELSE 0

\* the results of an expansion: Ok(value), or Err(LookupError)
Expanded(v) == [ok |-> TRUE, val |-> v]
LookupError == [ok |-> FALSE, val |-> ""]
Then(prefix, r) == IF r.ok THEN Expanded(prefix \o r.val) ELSE r

\* shellexpand::env(s) in the environment e: every $NAME and ${NAME} is replaced
\* by the value of NAME; a name that is not set is an error; a $ that no name
\* follows stays
RECURSIVE expand_env(_, _)
expand_env(s, e) ==
    IF Len(s) = 0 THEN Expanded("")
    ELSE IF SubSeq(s, 1, 1) # "$"
    THEN Then(SubSeq(s, 1, 1), expand_env(SubSeq(s, 2, Len(s)), e))
    ELSE LET braced == Len(s) >= 2 /\ SubSeq(s, 2, 2) = "{"
             close == FindFrom(s, "}", 3)
             n == NameLen(s, 2)
             name == IF braced THEN SubSeq(s, 3, close - 1) ELSE SubSeq(s, 2, 1 + n)
             rest == IF braced THEN SubSeq(s, close + 1, Len(s))
                     ELSE SubSeq(s, 2 + n, Len(s))
         IN IF (braced /\ close = 0) \/ (~braced /\ n = 0)
            THEN Then("$", expand_env(SubSeq(s, 2, Len(s)), e))
            ELSE IF name \notin DOMAIN e THEN LookupError
            ELSE Then(e[name], expand_env(rest, e))

\* get_string_array: every item expanded, the first error returned
RECURSIVE expand_all(_, _)
expand_all(items, e) ==
    IF items = <<>> THEN Expanded(<<>>)
    ELSE LET x == expand_env(Head(items), e)
             r == expand_all(Tail(items), e)
         IN IF x.ok /\ r.ok THEN Expanded(<<x.val>> \o r.val) ELSE LookupError

\* a var declaration
Var(n, c) == [name |-> n, command |-> c]

\* a mount declaration; options "" stands for no options
Mnt(t, s, d, o) == [type |-> t, src |-> s, dst |-> d, options |-> o]

\* load_config, mounts: src and dst are expanded, type and options are not
RECURSIVE expand_mounts(_, _)
expand_mounts(items, e) ==
    IF items = <<>> THEN Expanded(<<>>)
    ELSE LET m == Head(items)
             src == expand_env(m.src, e)
             dst == expand_env(m.dst, e)
             r == expand_mounts(Tail(items), e)
         IN IF src.ok /\ dst.ok /\ r.ok
            THEN Expanded(<< "type=" \o m.type \o ",src=" \o src.val \o ",dst=" \o dst.val
                               \o (IF m.options = "" THEN "" ELSE "," \o m.options) >>
                          \o r.val)
            ELSE LookupError

\* sh -c <command>, for the commands of the model: echo prints its text and a
\* newline (white space, written as a space), false prints nothing and fails, any
\* other command prints nothing
Sh(command) ==
    IF Len(command) >= 5 /\ SubSeq(command, 1, 5) = "echo "
    THEN [code |-> 0, stdout |-> SubSeq(command, 6, Len(command)) \o " "]
    ELSE IF command = "false" THEN [code |-> 1, stdout |-> ""]
    ELSE [code |-> 0, stdout |-> ""]

\* the directories of the chain are /, /a, /a/a, ...
RECURSIVE Rel(_)
Rel(k) == IF k = 0 THEN "" ELSE IF k = 1 THEN "a" ELSE "a/" \o Rel(k - 1)
RootPathStr(d) == "/" \o Rel(d - 1)

\* the environment a lookup sees while load_config is at directory m: environ
\* and CONTAIN_ROOT_PATH
Env_of_start(e, m) == set_var(e, "CONTAIN_ROOT_PATH", RootPathStr(Len(fs)))
Env(e, m) == set_var(e, "CONTAIN_ROOT_PATH", RootPathStr(m))

\* an entry of sh_log: the variable, the expanded command handed to sh, whether
\* sh could be invoked, and what the command gave
Ran(name, command, invoked, out) ==
    [name |-> name, command |-> command, invoked |-> invoked,
     code |-> out.code, stdout |-> out.stdout]

\* load_config, the var declarations from the i-th on, one after the other: the
\* command is expanded in the environment of that moment, run with sh -c, and the
\* variable set to the trimmed output.  broken is the declaration at which sh
\* cannot be invoked (0: none).  Gives the error ("": none), the environment and
\* the log at the end.
RECURSIVE run_vars_at_once(_, _, _, _, _, _)
run_vars_at_once(decls, i, e, m, log, broken) ==
    IF i > Len(decls) THEN [err |-> "", env |-> e, log |-> log]
    ELSE LET var_cmd == expand_env(decls[i].command, Env(e, m))
             out == Sh(var_cmd.val)
             rest == run_vars_at_once(decls, i + 1, e, m,
                                      Append(log, Ran(decls[i].name, var_cmd.val, TRUE, out)),
                                      broken)
         IN IF ~var_cmd.ok THEN [err |-> "ConfigInvalidValue", env |-> e, log |-> log]
            ELSE IF i = broken
            THEN [err |-> "CommandError", env |-> e,
                  log |-> Append(log, Ran(decls[i].name, var_cmd.val, FALSE,
                                          [code |-> 0, stdout |-> ""]))]
            ELSE [rest EXCEPT !.env = set_var(@, decls[i].name, Trim(out.stdout))]
RECURSIVE run_vars(_, _, _, _, _, _)
run_vars(decls, i, e, m, log, broken) ==
    IF i > Len(decls) THEN [err |-> "", env |-> e, log |-> log]
    ELSE LET var_cmd == expand_env(decls[i].command, Env(e, m))
             out == Sh(var_cmd.val)
         IN IF ~var_cmd.ok THEN [err |-> "ConfigInvalidValue", env |-> e, log |-> log]
            ELSE IF i = broken
            THEN [err |-> "CommandError", env |-> e,
                  log |-> Append(log, Ran(decls[i].name, var_cmd.val, FALSE,
                                          [code |-> 0, stdout |-> ""]))]
            ELSE run_vars(decls, i + 1, set_var(e, decls[i].name, Trim(out.stdout)), m,
                          Append(log, Ran(decls[i].name, var_cmd.val, TRUE, out)), broken)

(***************************************************************************)
(* The engine argument lists of docker_run, docker_run_detached and        *)
(* docker_exec.                                                            *)
(***************************************************************************)
\* format!("{}:{}", uid, gid)
UidGid == "1000:1000"
Image == "img"
\* env::var("WORKDIR_PATH").unwrap_or_else(|_| "/workdir")
WorkdirPath == "/workdir"
workdir_path(e) == IF "WORKDIR_PATH" \in DOMAIN e THEN e["WORKDIR_PATH"] ELSE WorkdirPath

\* std::env::current_dir(): the launcher is started in the last directory of the
\* chain
current_dir_of_root == RootPathStr(1)
current_dir == RootPathStr(Len(fs))

\* Path::strip_prefix(base), for absolute paths without a trailing slash: the
\* rest of the path when base is the path or one of its ancestors (whole
\* components), else an error
NotUnder == [ok |-> FALSE, val |-> ""]
strip_prefix_of_string(p, base) ==
    IF Len(p) >= Len(base) /\ SubSeq(p, 1, Len(base)) = base
    THEN Expanded(IF Len(p) > Len(base) /\ SubSeq(p, Len(base) + 1, Len(base) + 1) = "/"
                  THEN SubSeq(p, Len(base) + 2, Len(p))
                  ELSE SubSeq(p, Len(base) + 1, Len(p)))
    ELSE NotUnder
strip_prefix(p, base) ==
    IF p = base THEN Expanded("")
    ELSE IF base = "/" THEN Expanded(SubSeq(p, 2, Len(p)))
    ELSE IF Len(p) > Len(base) /\ SubSeq(p, 1, Len(base) + 1) = base \o "/"
    THEN Expanded(SubSeq(p, Len(base) + 2, Len(p)))
    ELSE NotUnder

\* run_command: relative_path, the current directory below the root of c
relative_path(c) == strip_prefix(current_dir, RootPathStr(c.root_path))

\* format!("{}/{}", c.workdir_path, relative_path_str)
CurrentDir(c) == c.workdir_path \o "/" \o relative_path(c).val

\* format!("type=bind,src={},dst={}", root_path, workdir_path)
Mount(c) == "type=bind,src=" \o RootPathStr(c.root_path) \o ",dst=" \o c.workdir_path

Opt(b, s) == IF b THEN s ELSE <<>>

\* a flag before every item
RECURSIVE Flagged(_, _)
Flagged(flag, items) ==
    IF items = <<>> THEN <<>>
    ELSE <<flag, Head(items)>> \o Flagged(flag, Tail(items))

\* -e before every variable, trimmed
RECURSIVE EnvArgs(_)
EnvArgs(items) ==
    IF items = <<>> THEN <<>>
    ELSE <<"-e", Trim(Head(items))>> \o EnvArgs(Tail(items))

\* the entry a Configuration was made of
EntryAt(r) == fs[r.root_path].entries[r.entry]

\* if !options.run_as_root && !c.flags.contains("root"): -u uid:gid
user_mapping_unless_flag(c, o) == Opt("root" \notin c.flags, <<"-u", UidGid>>)
user_mapping(c, o) == Opt(~o.run_as_root /\ "root" \notin c.flags, <<"-u", UidGid>>)

\* if !options.keep_container && !c.flags.contains("k"): --rm
cleanup_unless_option(c, o) == Opt(~o.keep_container, <<"--rm">>)
cleanup(c, o) == Opt(~o.keep_container /\ "k" \notin c.flags, <<"--rm">>)

\* [&c.env_variables[..], &options.cli_env_variables[..]].concat(), -e for each
env_args_cli_first(c, o) == EnvArgs(o.cli_env_variables \o c.env_variables)
env_args(c, o) == EnvArgs(c.env_variables \o o.cli_env_variables)

\* if !options.skip_ports: -p for each port
port_args_always(c, o) == Flagged("-p", c.ports)
port_args(c, o) == Opt(~o.skip_ports, Flagged("-p", c.ports))

docker_run_args(c, o, interactive, command, a) ==
    <<"run">>
        \o Opt(c.name # "" /\ ~o.skip_name, <<"--name", c.name>>)
        \o user_mapping(c, o)
        \o cleanup(c, o)
        \o Opt(interactive \/ "i" \in c.flags, <<"-it">>)
        \o Opt("privileged" \in c.flags, <<"--privileged">>)
        \o <<"-w", CurrentDir(c)>>
        \o env_args(c, o)
        \o <<"--mount", Mount(c)>>
        \o Flagged("--mount", c.extra_mounts)
        \o port_args(c, o)
        \o <<Image, command>>
        \o a

docker_run_detached_args(c, o) ==
    <<"run", "-d", "--name", c.name>>
        \o user_mapping(c, o)
        \o <<"-w", c.workdir_path>>
        \o env_args(c, o)
        \o <<"--mount", Mount(c)>>
        \o Flagged("--mount", c.extra_mounts)
        \o port_args(c, o)
        \o Opt("privileged" \in c.flags, <<"--privileged">>)
        \o <<Image, "sleep", "infinity">>

docker_exec_args(c, o, command, a) ==
    <<"exec", "-it">>
        \o user_mapping(c, o)
        \o <<"-w", CurrentDir(c)>>
        \o env_args(c, o)
        \o <<c.name, command>>
        \o a

(***************************************************************************)
(* Documents.  A document is absent, malformed (present, fails to parse)   *)
(* or valid; a valid one has an optional contain_min_version (0: not       *)
(* declared) and the list of its image entries.  An entry has its commands *)
(* (a string or a list of strings: the strings it holds), its optional     *)
(* name ("": none) and complete: whether the required fields image and     *)
(* dockerfile are present as strings; and the optional flags, env,         *)
(* build_args, mounts, ports and var (each var: its name and its command), *)
(* and the optional default_shell ("": none).                              *)
(***************************************************************************)
Entry(c, n, k) ==
    [commands |-> c, name |-> n, complete |-> k,
     flags |-> {}, env |-> <<>>, build_args |-> <<>>, mounts |-> <<>>, ports |-> <<>>,
     var |-> <<>>, default_shell |-> ""]
Doc(k, v, e) == [kind |-> k, minVersion |-> v, entries |-> e]

Absent == Doc("absent", 0, <<>>)
Malformed == Doc("malformed", 0, <<>>)

ELs == Entry({"ls"}, "", TRUE)
ECat == Entry({"cat", "shell"}, "", TRUE)
EAnyNamed == Entry({ANY}, "web", TRUE)
EAny == Entry({ANY}, "", TRUE)
ELsBroken == Entry({"ls"}, "web", FALSE)
EAnyBroken == Entry({ANY}, "", FALSE)

\* the documents a directory of the resolution specification may hold
Docs ==
    { Absent, Malformed,
      Doc("valid", 2, <<EAnyNamed>>),
      Doc("valid", 2, <<ELs>>),
      Doc("valid", 1, <<ELs>>),
      Doc("valid", 0, <<ECat>>),
      Doc("valid", 0, <<EAnyNamed>>),
      Doc("valid", 0, <<ELsBroken, EAny>>),
      Doc("valid", 0, <<ECat, EAnyNamed, ELs>>),
      Doc("valid", 0, <<>>) }

\* the documents a directory of the invocation specification may hold
LaunchDocs ==
    { Absent,
      Doc("valid", 2, <<EAnyNamed>>),
      Doc("valid", 0, <<EAnyBroken>>),
      Doc("valid", 0, <<EAnyNamed>>),
      Doc("valid", 0, <<EAny>>),
      Doc("valid", 0, <<ELs>>) }

Chains(D, n) == UNION { [1..k -> D] : k \in 1..n }

(***************************************************************************)
(* Results of load_config.                                                 *)
(***************************************************************************)
NoResult == [kind |-> "none"]
NoInvocation == [sub |-> "none", result |-> "none"]
\* no second invocation
NoPeer == [sub |-> "none"]
Err(e, d) == [kind |-> "err", err |-> e, at |-> d]
\* Error::NoConfigFound { command }
NoConfigFoundAny(command, d) ==
    [kind |-> "err", err |-> "NoConfigFound", at |-> d, command |-> ANY]
NoConfigFound(command, d) == [kind |-> "err", err |-> "NoConfigFound", at |-> d,
                              command |-> command]
\* Configuration: root_path is the directory of the document, entry the index of
\* the matched entry in it, name the entry's name; the other fields as of an entry
\* that declares none of them
Configuration(d, i, n) ==
    [kind |-> "ok", root_path |-> d, entry |-> i, name |-> n,
     workdir_path |-> WorkdirPath, flags |-> {}, env_variables |-> <<>>,
     build_args |-> <<>>, extra_mounts |-> <<>>, ports |-> <<>>,
     default_shell |-> ""]

\* what a call of load_config makes of the matched entry i of directory p, in the
\* environment e and with the log so far: the Configuration or the Error, the
\* environment and the log it leaves.  The var commands run first; env,
\* build_args and the mounts are expanded after them.
resolve_entry_vars_last(p, i, e, log, broken) ==
    LET c == fs[p].entries[i]
        v == run_vars(c.var, 1, e, p, log, broken)
        env_variables == expand_all(c.env, Env(e, p))
        build_args == expand_all(c.build_args, Env(e, p))
        extra_mounts == expand_mounts(c.mounts, Env(e, p))
    IN IF ~c.complete THEN [res |-> Err("ConfigMissingField", p), env |-> e, log |-> log]
       ELSE IF ~env_variables.ok \/ ~build_args.ok \/ ~extra_mounts.ok
       THEN [res |-> Err("ConfigInvalidValue", p), env |-> e, log |-> log]
       ELSE IF v.err # "" THEN [res |-> Err(v.err, p), env |-> v.env, log |-> v.log]
       ELSE [res |-> [Configuration(p, i, c.name) EXCEPT
                        !.workdir_path = workdir_path(v.env),
                        !.flags = c.flags,
                        !.env_variables = env_variables.val,
                        !.build_args = build_args.val,
                        !.extra_mounts = extra_mounts.val,
                        !.ports = c.ports,
                        !.default_shell = c.default_shell],
             env |-> v.env, log |-> v.log]
resolve_entry(p, i, e, log, broken) ==
    LET c == fs[p].entries[i]
        v == run_vars(c.var, 1, e, p, log, broken)
        env_variables == expand_all(c.env, Env(v.env, p))
        build_args == expand_all(c.build_args, Env(v.env, p))
        extra_mounts == expand_mounts(c.mounts, Env(v.env, p))
    IN IF ~c.complete THEN [res |-> Err("ConfigMissingField", p), env |-> e, log |-> log]
       ELSE IF v.err # "" THEN [res |-> Err(v.err, p), env |-> v.env, log |-> v.log]
       ELSE IF ~env_variables.ok \/ ~build_args.ok \/ ~extra_mounts.ok
       THEN [res |-> Err("ConfigInvalidValue", p), env |-> v.env, log |-> v.log]
       ELSE [res |-> [Configuration(p, i, c.name) EXCEPT
                        !.workdir_path = workdir_path(v.env),
                        !.flags = c.flags,
                        !.env_variables = env_variables.val,
                        !.build_args = build_args.val,
                        !.extra_mounts = extra_mounts.val,
                        !.ports = c.ports,
                        !.default_shell = c.default_shell],
             env |-> v.env, log |-> v.log]

(***************************************************************************)
(* load_config, one call.                                                  *)
(***************************************************************************)
\* config::Config::builder().add_source(File::with_name(..)).build() is Ok
BuildOk(doc) == doc.kind = "valid"

\* Version::parse(CARGO_PKG_VERSION) < Version::parse(min_version), for a declared
\* min_version (the documents of the model declare versions that parse)
GateNever(doc) == FALSE
GateFails(doc) == doc.minVersion # 0 /\ RunningVersion < doc.minVersion

\* the test of one entry: its commands hold the command or the wildcard
EntryMatchesLiteral(e, command) == command \in e.commands
EntryMatches(e, command) == command \in e.commands \/ ANY \in e.commands

RECURSIVE FirstMatch(_, _, _)
FirstMatch(entries, command, i) ==
    IF i > Len(entries) THEN 0
    ELSE IF EntryMatches(entries[i], command) THEN i
    ELSE FirstMatch(entries, command, i + 1)

\* the index of the entry get_config_table returns, 0 for None
get_config_table(doc, command) == FirstMatch(doc.entries, command, 1)

\* PathBuf::pop: the parent; the root has none and is left as it is
PopToRoot(p) == 1
Pop(p) == IF p > 1 THEN p - 1 ELSE p

\* path.as_os_str().len() > 1: the path is not the root "/"
NotRoot(p) == p > 1

\* the part every call does first: count it, write CONTAIN_ROOT_PATH
Enter ==
    /\ pc = "load_config"
    /\ visits[path] < MaxVisits
    /\ visits' = [visits EXCEPT ![path] = @ + 1]
    /\ marker' = path

\* the call returns r to its caller
Return(r) ==
    /\ res' = r
    /\ pc' = "resolved"
    /\ UNCHANGED <<path, cmd>>

\* the call ends in a call of itself for directory p
Recurse(p) ==
    /\ path' = p
    /\ UNCHANGED <<res, pc, cmd, environ, sh_log>>

OtherUnchanged ==
    UNCHANGED <<inputVars, phase, target, walks, engineVars, ops, printed, result,
                docker_args>>

\* the document asks for a newer binary
load_config_gate ==
    /\ Enter
    /\ BuildOk(fs[path]) /\ GateFails(fs[path])
    /\ Return(Err("ConfigError", path))
    /\ UNCHANGED <<environ, sh_log>>
    /\ OtherUnchanged

\* an entry matches: the error of a missing field, or the var commands are run,
\* the fields expanded and the Configuration returned; sh may fail to be invoked
\* at any of the var commands
load_config_match ==
    /\ Enter
    /\ BuildOk(fs[path]) /\ ~GateFails(fs[path])
    /\ get_config_table(fs[path], cmd) # 0
    /\ LET i == get_config_table(fs[path], cmd)
       IN \E broken \in 0..Len(fs[path].entries[i].var) :
            LET r == resolve_entry(path, i, environ, sh_log, broken)
            IN /\ Return(r.res)
               /\ environ' = r.env
               /\ sh_log' = r.log
    /\ OtherUnchanged

\* no entry matches: pop and try the parent
load_config_nomatch ==
    /\ Enter
    /\ BuildOk(fs[path]) /\ ~GateFails(fs[path])
    /\ get_config_table(fs[path], cmd) = 0
    /\ Recurse(Pop(path))
    /\ OtherUnchanged

\* no document could be built here and this is not the root: try the parent
load_config_up ==
    /\ Enter
    /\ ~BuildOk(fs[path]) /\ NotRoot(path)
    /\ Recurse(Pop(path))
    /\ OtherUnchanged

\* no document could be built at the root
load_config_root ==
    /\ Enter
    /\ ~BuildOk(fs[path]) /\ ~NotRoot(path)
    /\ Return(NoConfigFound(cmd, path))
    /\ UNCHANGED <<environ, sh_log>>
    /\ OtherUnchanged

load_config ==
    \/ load_config_gate
    \/ load_config_match
    \/ load_config_nomatch
    \/ load_config_up
    \/ load_config_root

(***************************************************************************)
(* The resolution specification: load_config(start directory, command)     *)
(* for every chain of documents up to MaxDepth and every command.          *)
(***************************************************************************)
ResolveCommands == {"ls", "cat"}

InitResolve ==
    /\ fs \in Chains(Docs, MaxDepth)
    /\ cmd \in ResolveCommands
    /\ sub = "resolve" /\ dry = FALSE /\ inside = FALSE
    /\ host = HostOf(FALSE) /\ options = DefaultOptions /\ args = <<>>
    /\ environ = InitialEnv /\ docker_args = <<>> /\ sh_log = <<>>
    /\ phase = "resolve" /\ target = ""
    /\ pc = "load_config"
    /\ path = Len(fs)
    /\ visits = [d \in 1..Len(fs) |-> 0]
    /\ walks = 1
    /\ marker = 0
    /\ res = NoResult
    /\ container = "none" /\ sibling = FALSE /\ image = FALSE
    /\ container0 = "none"
    /\ ops = <<>> /\ printed = <<>>
    /\ result = "none"
    /\ prev = NoInvocation
    /\ peer = NoPeer

NextResolve == load_config

SpecResolve == InitResolve /\ [][NextResolve]_vars

(***************************************************************************)
(* The container engine, as much of it as the launcher asks about: the     *)
(* container that carries the configured name, one other running container *)
(* whose name contains the configured name, and the configured image.      *)
(***************************************************************************)
ContainerName == "web"
SiblingName == "web-db"
ContainerStates == {"none", "running", "paused", "exited", "created"}

\* the STATUS column of docker ps for a container in state c ("" : no line)
StatusOf(c) ==
    CASE c = "running" -> "Up 2 minutes"
      [] c = "paused" -> "Up 2 minutes (Paused)"
      [] c = "exited" -> "Exited (0) 2 minutes ago"
      [] c = "created" -> "Created"
      [] OTHER -> ""
StartsWithUp(s) == s \in {"Up 2 minutes", "Up 2 minutes (Paused)"}
StartsWithExited(s) == s = "Exited (0) 2 minutes ago"

\* a container docker ps lists without -a
IsUp(c) == StartsWithUp(StatusOf(c))

\* the lines of `docker ps -f name=<n>`: the running containers whose name
\* contains n (the filter is not anchored)
PsNameFilter(n) ==
    (IF n = ContainerName /\ IsUp(container) THEN {ContainerName} ELSE {})
        \cup (IF sibling THEN {SiblingName} ELSE {})

\* the line of `docker ps -a -f name=^<n>$`: the container of exactly that name
PsContainsAll(n) ==
    IF n = ContainerName /\ container # "none" THEN StatusOf(container)
    ELSE IF sibling THEN StatusOf("running") ELSE ""
PsExactAll(n) == IF n = ContainerName THEN StatusOf(container) ELSE ""

B(b) == IF b THEN "true" ELSE "false"

\* container_exists: the whole trimmed output equals the name
container_exists(n) == PsNameFilter(n) = {n}

\* container_is_stopped: the status is not empty and starts with "Exited"
container_is_stopped(n) == PsExactAll(n) # "" /\ StartsWithExited(PsExactAll(n))

\* get_container_info: None, or the info with running = status starts with "Up"
get_container_info(n) ==
    IF PsExactAll(n) = "" THEN "not_created"
    ELSE IF StartsWithUp(PsExactAll(n)) THEN "running" ELSE "stopped"

\* what the engine answers to the mutating commands, by the container's state
EngineStop(c) ==
    IF c = "running" THEN {"true"} ELSE IF c = "paused" THEN {"true", "false"} ELSE {"false"}
EngineRm(c) == IF c \in {"exited", "created"} THEN "true" ELSE "false"
EngineStart(c) == IF c \in {"exited", "created", "running"} THEN "true" ELSE "false"
\* docker run --name <n>: refused when the name is taken
EngineRun(n) == IF n # "" /\ container # "none" THEN "false" ELSE "true"
EngineExec(c) == IF c = "running" THEN "true" ELSE "false"

(***************************************************************************)
(* One invocation of the launcher.                                         *)
(***************************************************************************)
Subcommands == {"run", "shell", "up", "down", "status"}

Call(op, r) == ops' = Append(ops, [op |-> op, res |-> r])
Finish(r) == pc' = "done" /\ result' = r

Issued(op) == \E i \in DOMAIN ops : ops[i].op = op
IssuedWith(op, r) == \E i \in DOMAIN ops : ops[i] = [op |-> op, res |-> r]

\* a call of load_config(current_dir, c) from call site ph
BeginWalk(ph, c) ==
    /\ phase' = ph
    /\ cmd' = c
    /\ path' = Len(fs)
    /\ visits' = [d \in 1..Len(fs) |-> 0]
    /\ walks' = walks + 1
    /\ pc' = "load_config"
    /\ UNCHANGED <<marker, res, environ, docker_args, sh_log>>

\* load_config is not running: its arguments and counters stay
WalkUnchanged == UNCHANGED <<phase, cmd, path, visits, walks, marker, res>>

\* nor is anything written to the environment or built for the engine
NoWalk == WalkUnchanged /\ UNCHANGED <<environ, docker_args, sh_log>>

\* main, subcommand run: passthrough inside a container, else run_command
main_run ==
    /\ pc = "start" /\ sub = "run"
    /\ IF inside
       THEN pc' = "passthrough" /\ NoWalk
       ELSE BeginWalk("run", target)
    /\ UNCHANGED <<inputVars, target, engineVars, ops, printed, result>>

\* main, subcommand shell: load_config(current_path, "shell")
main_shell ==
    /\ pc = "start" /\ sub = "shell"
    /\ BeginWalk("shell", "shell")
    /\ UNCHANGED <<inputVars, target, engineVars, ops, printed, result>>

\* .or_else(|_| load_config(current_path, "any"))
main_shell_or_else ==
    /\ pc = "resolved" /\ phase = "shell" /\ res.kind = "err"
    /\ BeginWalk("any", ANY)
    /\ UNCHANGED <<inputVars, target, engineVars, ops, printed, result>>

\* config.default_shell.as_deref().unwrap_or(DEFAULT_SHELL)
shell(c) == IF c.default_shell = "" THEN DEFAULT_SHELL ELSE c.default_shell

\* the shell to run: default_shell or DEFAULT_SHELL; passthrough or run_command
main_shell_config ==
    /\ pc = "resolved"
    /\ \/ phase = "shell" /\ res.kind = "ok"
       \/ phase = "any"
    /\ IF res.kind = "err"
       THEN Finish(res.err) /\ NoWalk /\ UNCHANGED target
       ELSE /\ target' = shell(res)
            /\ UNCHANGED result
            /\ IF inside
               THEN pc' = "passthrough" /\ NoWalk
               ELSE BeginWalk("run", shell(res))
    /\ UNCHANGED <<inputVars, engineVars, ops, printed>>

\* passthrough_command: the -e variables are set, then the process becomes the
\* target command, or exits 127 when exec fails
passthrough_command ==
    /\ pc = "passthrough"
    /\ environ' = SetCliEnv(options.cli_env_variables, environ)
    /\ \E r \in {"exec", "exit127"} : Finish(r)
    /\ WalkUnchanged
    /\ UNCHANGED <<inputVars, target, engineVars, ops, printed, docker_args, sh_log>>

\* what run_command does with the result of load_config: an error is returned
\* (the ? operator); the image is ensured unless this is a dry run
AfterLoadAlwaysEnsure(r, d) == "image_exists"
AfterLoad(r, d) ==
    IF r.kind = "err" THEN "done"
    ELSE IF d THEN "dispatch" ELSE "image_exists"

run_command ==
    /\ pc = "resolved" /\ phase = "run"
    /\ IF res.kind = "ok" /\ ~relative_path(res).ok
       THEN Finish("PathError")
       ELSE /\ pc' = AfterLoad(res, dry)
            /\ result' = IF res.kind = "err" THEN res.err ELSE result
    /\ NoWalk
    /\ UNCHANGED <<inputVars, target, engineVars, ops, printed>>

(***************************************************************************)
(* The image-ensure chain of run_command and container_up.                 *)
(***************************************************************************)
\* where the chain's caller goes on
AfterImage == IF sub = "up" THEN "docker_run_detached" ELSE "dispatch"

\* if !image_exists(..)? : the next step after image_exists answered r
AfterImageExists(r) == IF r = "true" THEN AfterImage ELSE "download_image"

\* if !download_image(..)?
AlwaysBuild(r) == "build_image"
AfterDownload(r) == IF r = "true" THEN AfterImage ELSE "build_image"

\* if !build_image(..)? { return Err(ImageBuildFailed) }
AfterBuild(r) == IF r = "true" THEN AfterImage ELSE "done"

image_exists ==
    /\ pc = "image_exists"
    /\ \E r \in {"err", B(image)} :
        /\ Call("image_exists", r)
        /\ IF r = "err" THEN Finish("CommandError")
           ELSE pc' = AfterImageExists(r) /\ UNCHANGED result
    /\ NoWalk
    /\ UNCHANGED <<inputVars, target, engineVars, printed>>

download_image ==
    /\ pc = "download_image"
    /\ \E r \in {"err", "true", "false"} :
        /\ Call("download_image", r)
        /\ image' = (image \/ r = "true")
        /\ IF r = "err" THEN Finish("CommandError")
           ELSE pc' = AfterDownload(r) /\ UNCHANGED result
    /\ NoWalk
    /\ UNCHANGED <<inputVars, target, container, sibling, printed>>

build_image ==
    /\ pc = "build_image"
    /\ \E r \in {"err", "true", "false"} :
        /\ Call("build_image", r)
        /\ image' = (image \/ r = "true")
        /\ IF r = "err" THEN Finish("CommandError")
           ELSE /\ pc' = AfterBuild(r)
                /\ result' = IF AfterBuild(r) = "done" THEN "ImageBuildFailed" ELSE result
    /\ NoWalk
    /\ UNCHANGED <<inputVars, target, container, sibling, printed>>

(***************************************************************************)
(* run_command after the image: exec into the named running container, or  *)
(* run a new one.                                                          *)
(***************************************************************************)
run_command_dispatch ==
    /\ pc = "dispatch"
    /\ IF res.name # "" /\ ~dry
       THEN \E r \in {"err", B(container_exists(res.name))} :
                /\ Call("container_exists", r)
                /\ IF r = "err" THEN Finish("CommandError")
                   ELSE /\ pc' = IF r = "true" THEN "docker_exec" ELSE "docker_run"
                        /\ UNCHANGED result
       ELSE pc' = "docker_run" /\ UNCHANGED <<ops, result>>
    /\ NoWalk
    /\ UNCHANGED <<inputVars, target, engineVars, printed>>

\* what becomes of the child of execute_command: it cannot be spawned ("err"), it
\* exits with a code (0 for "true", another for "false"), it ends without a code
\* ("signal"), or waiting for it fails ("wait_err")
ChildOutcomes(r) == {"err", r, "signal", "wait_err"}

\* how execute_command ends: spawn().expect(..) panics; exit(code) or exit(0); an
\* error of wait() is printed and execute_command returns
AfterChild(x) ==
    CASE x = "err" -> "panic"
      [] x = "wait_err" -> "ok"
      [] OTHER -> "child_exit"

\* execute_command: a dry run prints; else the child is spawned and waited for
execute_command_ignoring_dry(op, r) ==
    \E x \in ChildOutcomes(r) :
        /\ Call(op, x)
        /\ Finish(AfterChild(x))
        /\ UNCHANGED printed
execute_command(op, r) ==
    IF dry
    THEN printed' = Append(printed, op) /\ Finish("ok") /\ UNCHANGED ops
    ELSE \E x \in ChildOutcomes(r) :
            /\ Call(op, x)
            /\ Finish(AfterChild(x))
            /\ UNCHANGED printed

docker_run ==
    /\ pc = "docker_run"
    /\ docker_args' = docker_run_args(res, options, Interactive, target, args)
    /\ execute_command("run", EngineRun(res.name))
    /\ WalkUnchanged
    /\ UNCHANGED <<inputVars, target, engineVars, environ, sh_log>>

docker_exec ==
    /\ pc = "docker_exec"
    /\ docker_args' = docker_exec_args(res, options, target, args)
    /\ execute_command("exec", EngineExec(container))
    /\ WalkUnchanged
    /\ UNCHANGED <<inputVars, target, engineVars, environ, sh_log>>

(***************************************************************************)
(* up, down, status.                                                       *)
(***************************************************************************)
\* main, subcommands up, down, status: require_named_config calls load_config
main_named ==
    /\ pc = "start" /\ sub \in {"up", "down", "status"}
    /\ BeginWalk("named", ANY)
    /\ UNCHANGED <<inputVars, target, engineVars, ops, printed, result>>

\* require_named_config after load_config: the error, NameRequired, or the name
require_named_config_unchecked ==
    /\ pc = "resolved" /\ phase = "named"
    /\ IF res.kind = "err" THEN Finish(res.err)
       ELSE pc' = sub /\ UNCHANGED result
    /\ NoWalk
    /\ UNCHANGED <<inputVars, target, engineVars, ops, printed>>
require_named_config ==
    /\ pc = "resolved" /\ phase = "named"
    /\ IF res.kind = "err" THEN Finish(res.err)
       ELSE IF res.name = "" THEN Finish("NameRequired")
       ELSE pc' = sub /\ UNCHANGED result
    /\ NoWalk
    /\ UNCHANGED <<inputVars, target, engineVars, ops, printed>>

\* container_up and container_down refuse to run inside a container
container_up ==
    /\ pc = "up"
    /\ IF inside THEN Finish("UnsupportedParameters")
       ELSE pc' = "up_exists" /\ UNCHANGED result
    /\ NoWalk
    /\ UNCHANGED <<inputVars, target, engineVars, ops, printed>>

\* if !options.dry_run && container_exists(&name)? { ContainerAlreadyRunning }
container_up_exists ==
    /\ pc = "up_exists"
    /\ IF dry THEN pc' = "up_stopped" /\ UNCHANGED <<ops, result>>
       ELSE \E r \in {"err", B(container_exists(res.name))} :
                /\ Call("container_exists", r)
                /\ IF r = "err" THEN Finish("CommandError")
                   ELSE IF r = "true" THEN Finish("ContainerAlreadyRunning")
                   ELSE pc' = "up_stopped" /\ UNCHANGED result
    /\ NoWalk
    /\ UNCHANGED <<inputVars, target, engineVars, printed>>

\* if !options.dry_run && container_is_stopped(&name)? { start it }
container_up_stopped ==
    /\ pc = "up_stopped"
    /\ IF dry THEN pc' = "docker_run_detached" /\ UNCHANGED <<ops, result>>
       ELSE \E r \in {"err", B(container_is_stopped(res.name))} :
                /\ Call("container_is_stopped", r)
                /\ IF r = "err" THEN Finish("CommandError")
                   ELSE /\ pc' = IF r = "true" THEN "start_stopped_container"
                                 ELSE "image_exists"
                        /\ UNCHANGED result
    /\ NoWalk
    /\ UNCHANGED <<inputVars, target, engineVars, printed>>

start_stopped_container ==
    /\ pc = "start_stopped_container"
    /\ IF dry
       THEN printed' = Append(printed, "start") /\ Finish("ok")
            /\ UNCHANGED <<ops, container>>
       ELSE \E r \in {"err", EngineStart(container)} :
                /\ Call("start", r)
                /\ container' = IF r = "true" THEN "running" ELSE container
                /\ Finish(IF r = "err" THEN "CommandError"
                          ELSE IF r = "true" THEN "ok" ELSE "DockerError")
                /\ UNCHANGED printed
    /\ NoWalk
    /\ UNCHANGED <<inputVars, target, sibling, image>>

\* docker_run_detached: the status of docker run -d made into its result
run_detached_status_as_running(r) ==
    IF r = "err" THEN "CommandError"
    ELSE IF r = "true" THEN "ok" ELSE "ContainerAlreadyRunning"
run_detached_status(r) ==
    IF r = "err" THEN "CommandError"
    ELSE IF r = "true" THEN "ok" ELSE "DockerError"

docker_run_detached ==
    /\ pc = "docker_run_detached"
    /\ docker_args' = docker_run_detached_args(res, options)
    /\ IF dry
       THEN printed' = Append(printed, "run -d") /\ Finish("ok")
            /\ UNCHANGED <<ops, container>>
       ELSE \E r \in {"err", EngineRun(res.name)} :
                /\ Call("run -d", r)
                /\ container' = IF r = "true" THEN "running" ELSE container
                /\ Finish(run_detached_status(r))
                /\ UNCHANGED printed
    /\ WalkUnchanged
    /\ UNCHANGED <<inputVars, target, sibling, image, environ, sh_log>>

container_down ==
    /\ pc = "down"
    /\ IF inside THEN Finish("UnsupportedParameters")
       ELSE pc' = "down_exists" /\ UNCHANGED result
    /\ NoWalk
    /\ UNCHANGED <<inputVars, target, engineVars, ops, printed>>

\* let is_running = !options.dry_run && container_exists(&name)?
container_down_exists ==
    /\ pc = "down_exists"
    /\ IF dry THEN pc' = "down_stop" /\ UNCHANGED <<ops, result>>
       ELSE \E r \in {"err", B(container_exists(res.name))} :
                /\ Call("container_exists", r)
                /\ IF r = "err" THEN Finish("CommandError")
                   ELSE /\ pc' = IF r = "true" THEN "down_stop" ELSE "down_stopped"
                        /\ UNCHANGED result
    /\ NoWalk
    /\ UNCHANGED <<inputVars, target, engineVars, printed>>

\* the answer of container_is_stopped when the container is not running: remove
\* it, or report that it does not exist and return Ok
AlwaysRemove(r) == "down_rm"
AfterIsStopped(r) == IF r = "true" THEN "down_rm" ELSE "done"

\* let is_stopped = !options.dry_run && !is_running && container_is_stopped(&name)?
container_down_stopped ==
    /\ pc = "down_stopped"
    /\ \E r \in {"err", B(container_is_stopped(res.name))} :
        /\ Call("container_is_stopped", r)
        /\ IF r = "err" THEN Finish("CommandError")
           ELSE /\ pc' = AfterIsStopped(r)
                /\ result' = IF AfterIsStopped(r) = "done" THEN "ok" ELSE result
    /\ NoWalk
    /\ UNCHANGED <<inputVars, target, engineVars, printed>>

\* docker stop, when is_running || dry_run
container_down_stop ==
    /\ pc = "down_stop"
    /\ IF dry
       THEN printed' = Append(printed, "stop") /\ pc' = "down_rm"
            /\ UNCHANGED <<ops, container, result>>
       ELSE \E r \in {"err"} \cup EngineStop(container) :
                /\ Call("stop", r)
                /\ container' = IF r = "true" THEN "exited" ELSE container
                /\ IF r = "true" THEN pc' = "down_rm" /\ UNCHANGED result
                   ELSE Finish("ContainerStopFailed")
                /\ UNCHANGED printed
    /\ NoWalk
    /\ UNCHANGED <<inputVars, target, sibling, image>>

\* docker rm
container_down_rm ==
    /\ pc = "down_rm"
    /\ IF dry
       THEN printed' = Append(printed, "rm") /\ Finish("ok")
            /\ UNCHANGED <<ops, container>>
       ELSE \E r \in {"err", EngineRm(container)} :
                /\ Call("rm", r)
                /\ container' = IF r = "true" THEN "none" ELSE container
                /\ Finish(IF r = "true" THEN "ok" ELSE "ContainerRemoveFailed")
                /\ UNCHANGED printed
    /\ NoWalk
    /\ UNCHANGED <<inputVars, target, sibling, image>>

\* container_status: inside a container and in a dry run nothing is queried
container_status ==
    /\ pc = "status"
    /\ IF inside THEN Finish("ok") /\ UNCHANGED <<ops, printed>>
       ELSE IF dry THEN printed' = Append(printed, "ps -a") /\ Finish("ok")
                        /\ UNCHANGED ops
       ELSE \E r \in {"err", get_container_info(res.name)} :
                /\ Call("get_container_info", r)
                /\ Finish(IF r = "err" THEN "CommandError" ELSE "ok")
                /\ UNCHANGED printed
    /\ NoWalk
    /\ UNCHANGED <<inputVars, target, engineVars>>

(***************************************************************************)
(* The invocation specification: one invocation, for every subcommand,     *)
(* option, chain of documents up to MaxLaunchDepth and engine state.       *)
(***************************************************************************)
Init ==
    /\ fs \in Chains(LaunchDocs, MaxLaunchDepth)
    /\ sub \in Subcommands
    /\ dry \in BOOLEAN
    /\ inside \in BOOLEAN
    /\ host = HostOf(inside) /\ options = DefaultOptions /\ args = <<>>
    /\ environ = InitialEnv /\ docker_args = <<>> /\ sh_log = <<>>
    /\ container \in ContainerStates
    /\ sibling \in BOOLEAN
    /\ image \in BOOLEAN
    /\ container0 = container
    /\ phase = "none" /\ cmd = ""
    /\ target = IF sub = "run" THEN "ls" ELSE ""
    /\ pc = "start"
    /\ path = Len(fs)
    /\ visits = [d \in 1..Len(fs) |-> 0]
    /\ walks = 0
    /\ marker = 0
    /\ res = NoResult
    /\ ops = <<>> /\ printed = <<>>
    /\ result = "none"
    /\ prev = NoInvocation
    /\ peer = NoPeer

Next ==
    \/ main_run
    \/ main_shell
    \/ main_shell_or_else
    \/ main_shell_config
    \/ passthrough_command
    \/ main_named
    \/ load_config
    \/ run_command
    \/ image_exists
    \/ download_image
    \/ build_image
    \/ run_command_dispatch
    \/ docker_run
    \/ docker_exec
    \/ require_named_config
    \/ container_up
    \/ container_up_exists
    \/ container_up_stopped
    \/ start_stopped_container
    \/ docker_run_detached
    \/ container_down
    \/ container_down_exists
    \/ container_down_stopped
    \/ container_down_stop
    \/ container_down_rm
    \/ container_status

Spec == Init /\ [][Next]_vars

(***************************************************************************)
(* Sequences of invocations on one named configuration: the process        *)
(* exits, and the launcher is started again with up or down.  The engine   *)
(* keeps its state between invocations and nothing else changes it.        *)
(***************************************************************************)
NamedDoc == Doc("valid", 0, <<EAnyNamed>>)

next_invocation ==
    /\ pc = "done"
    /\ prev' = [sub |-> sub, result |-> result]
    /\ sub' \in {"up", "down"}
    /\ container0' = container
    /\ pc' = "start"
    /\ phase' = "none" /\ cmd' = "" /\ target' = ""
    /\ path' = Len(fs)
    /\ visits' = [d \in 1..Len(fs) |-> 0]
    /\ walks' = 0
    /\ marker' = 0
    /\ res' = NoResult
    /\ ops' = <<>> /\ printed' = <<>>
    /\ result' = "none"
    /\ environ' = InitialEnv /\ docker_args' = <<>> /\ sh_log' = <<>>
    /\ UNCHANGED <<fs, dry, inside, engineVars, host, options, args, peer>>

InitCycle ==
    /\ fs \in {<<NamedDoc>>, <<NamedDoc, Absent>>}
    /\ sub \in {"up", "down"}
    /\ dry = FALSE
    /\ inside = FALSE
    /\ host = HostOf(FALSE) /\ options = DefaultOptions /\ args = <<>>
    /\ environ = InitialEnv /\ docker_args = <<>> /\ sh_log = <<>>
    /\ container \in ContainerStates
    /\ sibling \in BOOLEAN
    /\ image \in BOOLEAN
    /\ container0 = container
    /\ phase = "none" /\ cmd = "" /\ target = ""
    /\ pc = "start"
    /\ path = Len(fs)
    /\ visits = [d \in 1..Len(fs) |-> 0]
    /\ walks = 0
    /\ marker = 0
    /\ res = NoResult
    /\ ops = <<>> /\ printed = <<>>
    /\ result = "none"
    /\ prev = NoInvocation
    /\ peer = NoPeer

NextCycle ==
    \/ main_named
    \/ load_config_match
    \/ load_config_up
    \/ require_named_config
    \/ container_up
    \/ container_up_exists
    \/ container_up_stopped
    \/ start_stopped_container
    \/ image_exists
    \/ download_image
    \/ build_image
    \/ docker_run_detached
    \/ container_down
    \/ container_down_exists
    \/ container_down_stopped
    \/ container_down_stop
    \/ container_down_rm
    \/ next_invocation

SpecCycle == InitCycle /\ [][NextCycle]_vars

(***************************************************************************)
(* The passthrough specification: run and shell up to the passthrough      *)
(* decision, on hosts inside and outside a container, with -e flags and    *)
(* var declarations.  main asks is_inside_container where it needs the     *)
(* answer; the host does not change, so the model asks once, first.        *)
(***************************************************************************)
main_is_inside_container ==
    /\ pc = "detect"
    /\ inside' = is_inside_container(host)
    /\ pc' = "start"
    /\ UNCHANGED <<fs, sub, dry, phase, cmd, path, visits, walks, marker, res, target,
                   container, sibling, image, container0, ops, printed, result, prev,
                   host, options, args, environ, docker_args, sh_log, peer>>

EVar == [Entry({ANY}, "", TRUE) EXCEPT !.var = << Var("TOKEN", "echo abc") >>]

PassDocs == LaunchDocs \cup {Doc("valid", 0, <<EVar>>)}

PassHosts ==
    { Host(FALSE, "", FALSE, FALSE), Host(FALSE, "", TRUE, FALSE),
      Host(FALSE, "", FALSE, TRUE), Host(TRUE, "Yes", FALSE, FALSE),
      Host(TRUE, "0", TRUE, TRUE) }

\* the values of the -e flags
CliEnvs == { <<>>, <<"B">>, <<"A=1", "A=2=3", "C= x">> }

InitPassthrough ==
    /\ fs \in Chains(PassDocs, MaxLaunchDepth)
    /\ sub \in {"run", "shell"}
    /\ dry = FALSE
    /\ host \in PassHosts
    /\ inside = FALSE
    /\ options \in { GlobalOptions(FALSE, FALSE, FALSE, FALSE, FALSE, e) : e \in CliEnvs }
    /\ args = <<>>
    /\ environ = InitialEnv /\ docker_args = <<>> /\ sh_log = <<>>
    /\ container = "none" /\ sibling = FALSE /\ image = TRUE
    /\ container0 = container
    /\ phase = "none" /\ cmd = ""
    /\ target = IF sub = "run" THEN "ls" ELSE ""
    /\ pc = "detect"
    /\ path = Len(fs)
    /\ visits = [d \in 1..Len(fs) |-> 0]
    /\ walks = 0
    /\ marker = 0
    /\ res = NoResult
    /\ ops = <<>> /\ printed = <<>>
    /\ result = "none"
    /\ prev = NoInvocation
    /\ peer = NoPeer

NextPassthrough ==
    \/ main_is_inside_container
    \/ main_run
    \/ main_shell
    \/ main_shell_or_else
    \/ main_shell_config
    \/ load_config
    \/ passthrough_command

SpecPassthrough == InitPassthrough /\ [][NextPassthrough]_vars

(***************************************************************************)
(* The detection specification: is_inside_container on every host.         *)
(***************************************************************************)
InitDetect ==
    /\ fs = <<Absent>>
    /\ sub \in {"run", "shell"}
    /\ dry = FALSE
    /\ host \in Hosts
    /\ inside = FALSE
    /\ options = DefaultOptions /\ args = <<>>
    /\ environ = InitialEnv /\ docker_args = <<>> /\ sh_log = <<>>
    /\ container = "none" /\ sibling = FALSE /\ image = FALSE
    /\ container0 = container
    /\ phase = "none" /\ cmd = ""
    /\ target = IF sub = "run" THEN "ls" ELSE ""
    /\ pc = "detect"
    /\ path = Len(fs)
    /\ visits = [d \in 1..Len(fs) |-> 0]
    /\ walks = 0
    /\ marker = 0
    /\ res = NoResult
    /\ ops = <<>> /\ printed = <<>>
    /\ result = "none"
    /\ prev = NoInvocation
    /\ peer = NoPeer

NextDetect == main_is_inside_container

SpecDetect == InitDetect /\ [][NextDetect]_vars

(***************************************************************************)
(* The launch specification: run, shell and up with every combination of   *)
(* options on entries with flags, env, mounts and ports, on an engine that *)
(* has the image.                                                          *)
(***************************************************************************)
ERich ==
    [Entry({ANY}, "web", TRUE) EXCEPT !.flags = {"privileged", "i"},
                                      !.env = <<"A=0", " X=1 ", "H=$HOME">>,
                                      !.mounts = <<Mnt("volume", "v", "/v", "")>>,
                                      !.ports = <<"80:80", "443:443">>]
ERoot == [Entry({ANY}, "web", TRUE) EXCEPT !.flags = {"root", "k"}]

ArgDocs ==
    { Doc("valid", 0, <<ERich>>), Doc("valid", 0, <<ERoot>>),
      Doc("valid", 0, <<EAnyNamed>>), Doc("valid", 0, <<EAny>>) }

ArgOptions ==
    { GlobalOptions(i, k, r, sp, sn, e) :
        i \in BOOLEAN, k \in BOOLEAN, r \in BOOLEAN, sp \in BOOLEAN, sn \in BOOLEAN,
        e \in {<<>>, <<"A=1">>} }

InitArgs ==
    /\ fs \in { <<d>> : d \in ArgDocs } \cup { <<d, Absent>> : d \in ArgDocs }
                \cup { <<Absent, Doc("valid", 0, <<ERich>>), Absent>> }
    /\ sub \in {"run", "shell", "up"}
    /\ dry \in BOOLEAN
    /\ inside = FALSE
    /\ host = HostOf(FALSE)
    /\ options \in ArgOptions
    /\ args \in IF sub = "run" THEN {<<>>, <<"-la", "-e">>} ELSE {<<>>}
    /\ environ = InitialEnv /\ docker_args = <<>> /\ sh_log = <<>>
    /\ container \in {"none", "running"}
    /\ sibling = FALSE
    /\ image = TRUE
    /\ container0 = container
    /\ phase = "none" /\ cmd = ""
    /\ target = IF sub = "run" THEN "ls" ELSE ""
    /\ pc = "start"
    /\ path = Len(fs)
    /\ visits = [d \in 1..Len(fs) |-> 0]
    /\ walks = 0
    /\ marker = 0
    /\ res = NoResult
    /\ ops = <<>> /\ printed = <<>>
    /\ result = "none"
    /\ prev = NoInvocation
    /\ peer = NoPeer

NextArgs ==
    \/ main_run
    \/ main_shell
    \/ main_shell_config
    \/ main_named
    \/ load_config_match
    \/ load_config_up
    \/ run_command
    \/ image_exists
    \/ run_command_dispatch
    \/ docker_run
    \/ docker_exec
    \/ require_named_config
    \/ container_up
    \/ container_up_exists
    \/ container_up_stopped
    \/ docker_run_detached

SpecArgs == InitArgs /\ [][NextArgs]_vars

(***************************************************************************)
(* The var specification: load_config(current directory, ls) on entries    *)
(* with var declarations and fields that refer to variables, called twice  *)
(* in one process: the second call finds the environment the first left.   *)
(***************************************************************************)
\* var declarations that build on each other; env, build_args and a mount refer
\* to them
EChain ==
    [Entry({ANY}, "", TRUE) EXCEPT
        !.var = <<Var("REV", "echo 7"), Var("TAG", "echo v$REV")>>,
        !.env = <<"T=$TAG", "R=${REV}">>,
        !.build_args = <<"B=$REV">>,
        !.mounts = <<Mnt("bind", "$HOME/c", "/c/$REV", "ro")>>]
\* a var that overwrites a variable of the initial environment, used by env
ETag ==
    [Entry({"ls"}, "", TRUE) EXCEPT
        !.var = <<Var("TAG", "echo new")>>, !.env = <<"T=$TAG", "H=$HOME">>]
\* a var command that refers to a variable a later var overwrites
EEarly ==
    [Entry({"ls"}, "", TRUE) EXCEPT
        !.var = <<Var("A", "echo $TAG"), Var("TAG", "echo new")>>, !.env = <<"A=$A">>]
\* a var command that refers to a variable nothing sets
EUnset ==
    [Entry({"ls"}, "", TRUE) EXCEPT
        !.var = <<Var("A", "echo 1"), Var("B", "echo $NOPE"), Var("C", "echo 3")>>]
\* an env entry that refers to a variable nothing sets
EEnvUnset == [Entry({"ls"}, "", TRUE) EXCEPT !.var = <<Var("A", "echo 1")>>,
                                             !.env = <<"X=$NOPE">>]
\* a var command that fails; WORKDIR_PATH and CONTAIN_ROOT_PATH
EFalse ==
    [Entry({"ls"}, "", TRUE) EXCEPT
        !.var = <<Var("F", "false"), Var("WORKDIR_PATH", "echo /w")>>,
        !.env = <<"F=$F", "R=$CONTAIN_ROOT_PATH">>]
\* a var command that reads the root-path marker
EMarker ==
    [Entry({"ls"}, "", TRUE) EXCEPT
        !.var = <<Var("ROOT", "echo $CONTAIN_ROOT_PATH")>>, !.env = <<"R=$ROOT">>]

VarDocs ==
    { Absent,
      Doc("valid", 2, <<ETag>>),
      Doc("valid", 0, <<ECat>>),
      Doc("valid", 0, <<EChain>>),
      Doc("valid", 0, <<ETag>>),
      Doc("valid", 0, <<EEarly>>),
      Doc("valid", 0, <<EUnset>>),
      Doc("valid", 0, <<EEnvUnset>>),
      Doc("valid", 0, <<EFalse>>),
      Doc("valid", 0, <<EMarker>>) }

InitVars ==
    /\ fs \in Chains(VarDocs, MaxLaunchDepth)
    /\ cmd = "ls"
    /\ sub = "resolve" /\ dry = FALSE /\ inside = FALSE
    /\ host = HostOf(FALSE) /\ options = DefaultOptions /\ args = <<>>
    /\ environ = InitialEnv /\ docker_args = <<>> /\ sh_log = <<>>
    /\ phase = "resolve" /\ target = ""
    /\ pc = "load_config"
    /\ path = Len(fs)
    /\ visits = [d \in 1..Len(fs) |-> 0]
    /\ walks = 1
    /\ marker = 0
    /\ res = NoResult
    /\ container = "none" /\ sibling = FALSE /\ image = FALSE
    /\ container0 = "none"
    /\ ops = <<>> /\ printed = <<>>
    /\ result = "none"
    /\ prev = NoInvocation
    /\ peer = NoPeer

\* the same call once more, in the same process: the result and the log of the
\* first call are kept for comparison
load_config_again ==
    /\ pc = "resolved" /\ walks = 1
    /\ prev' = [sub |-> sub, result |-> res, log |-> sh_log, environ |-> environ]
    /\ BeginWalk(phase, cmd)
    /\ UNCHANGED <<fs, sub, dry, inside, container0, host, options, args, peer,
                   target, engineVars, ops, printed, result>>

NextVars ==
    \/ load_config
    \/ load_config_again

SpecVars == InitVars /\ [][NextVars]_vars

(***************************************************************************)
(* The race specification: two invocations of the launcher run at the same *)
(* time on one named configuration and one engine.  Each is a process of   *)
(* its own; the engine serves one call at a time, so the steps of the two  *)
(* interleave in any order.  One invocation takes steps while the other is *)
(* kept in peer; yield lets the other one go on.  When both have ended, a  *)
(* second pair is started on the engine as the first pair left it.         *)
(***************************************************************************)
\* the part of the state that belongs to the invocation taking steps
Context ==
    [sub |-> sub, dry |-> dry, inside |-> inside, phase |-> phase, cmd |-> cmd,
     pc |-> pc, path |-> path, visits |-> visits, walks |-> walks, marker |-> marker,
     res |-> res, target |-> target, container0 |-> container0, ops |-> ops,
     printed |-> printed, result |-> result, host |-> host, options |-> options,
     args |-> args, environ |-> environ, docker_args |-> docker_args,
     sh_log |-> sh_log]

\* an invocation of subcommand s that has just been started, on the host, while
\* the named container is in state c
Started(s, c) ==
    [sub |-> s, dry |-> FALSE, inside |-> FALSE, phase |-> "none", cmd |-> "",
     pc |-> "start", path |-> Len(fs), visits |-> [d \in 1..Len(fs) |-> 0],
     walks |-> 0, marker |-> 0, res |-> NoResult,
     target |-> IF s = "run" THEN "ls" ELSE "", container0 |-> c, ops |-> <<>>,
     printed |-> <<>>, result |-> "none", host |-> HostOf(FALSE),
     options |-> DefaultOptions, args |-> <<>>, environ |-> InitialEnv,
     docker_args |-> <<>>, sh_log |-> <<>>]

\* the invocation c is the one that takes the next steps
Resume(c) ==
    /\ sub' = c.sub /\ dry' = c.dry /\ inside' = c.inside /\ phase' = c.phase
    /\ cmd' = c.cmd /\ pc' = c.pc /\ path' = c.path /\ visits' = c.visits
    /\ walks' = c.walks /\ marker' = c.marker /\ res' = c.res /\ target' = c.target
    /\ container0' = c.container0 /\ ops' = c.ops /\ printed' = c.printed
    /\ result' = c.result /\ host' = c.host /\ options' = c.options
    /\ args' = c.args /\ environ' = c.environ /\ docker_args' = c.docker_args
    /\ sh_log' = c.sh_log

\* the subcommands of a pair: one of the first, one of the second
FirstOfPair == {"up", "run"}
SecondOfPair == {"up", "down"}

InitRace ==
    /\ fs = <<NamedDoc>>
    /\ container \in {"none", "running"}
    /\ sibling = FALSE
    /\ image = TRUE
    /\ sub \in FirstOfPair
    /\ dry = FALSE /\ inside = FALSE
    /\ host = HostOf(FALSE) /\ options = DefaultOptions /\ args = <<>>
    /\ environ = InitialEnv /\ docker_args = <<>> /\ sh_log = <<>>
    /\ container0 = container
    /\ phase = "none" /\ cmd = ""
    /\ target = IF sub = "run" THEN "ls" ELSE ""
    /\ pc = "start"
    /\ path = Len(fs)
    /\ visits = [d \in 1..Len(fs) |-> 0]
    /\ walks = 0
    /\ marker = 0
    /\ res = NoResult
    /\ ops = <<>> /\ printed = <<>>
    /\ result = "none"
    /\ prev = NoInvocation
    /\ peer \in { Started(s, container) : s \in SecondOfPair }

\* the scheduler: the other invocation goes on
yield ==
    /\ peer # NoPeer
    /\ pc # "done" \/ peer.pc # "done"
    /\ peer' = Context
    /\ Resume(peer)
    /\ UNCHANGED <<fs, engineVars, prev>>

\* both invocations have ended: what they were and how they ended is kept, and
\* two more are started
next_pair ==
    /\ peer # NoPeer /\ pc = "done" /\ peer.pc = "done"
    /\ prev = NoInvocation
    /\ prev' = [sub |-> <<sub, peer.sub>>, result |-> <<result, peer.result>>,
                ops |-> <<ops, peer.ops>>]
    /\ \E s \in FirstOfPair : Resume(Started(s, container))
    /\ peer' \in { Started(s, container) : s \in SecondOfPair }
    /\ UNCHANGED <<fs, engineVars>>

NextRace ==
    \/ main_run
    \/ main_named
    \/ load_config_match
    \/ run_command
    \/ image_exists
    \/ run_command_dispatch
    \/ docker_run
    \/ docker_exec
    \/ require_named_config
    \/ container_up
    \/ container_up_exists
    \/ container_up_stopped
    \/ start_stopped_container
    \/ docker_run_detached
    \/ container_down
    \/ container_down_exists
    \/ container_down_stopped
    \/ container_down_stop
    \/ container_down_rm
    \/ yield
    \/ next_pair

SpecRace == InitRace /\ [][NextRace]_vars

(***************************************************************************)
(* The shell specification: contain shell (as a dry run, on the host) on   *)
(* documents whose entries match shell, any or the shell itself, with and  *)
(* without default_shell.                                                  *)
(***************************************************************************)
EShell == Entry({"shell"}, "", TRUE)
EShellZsh == [Entry({"shell"}, "", TRUE) EXCEPT !.default_shell = "/bin/zsh"]
EAnyZsh == [Entry({ANY}, "web", TRUE) EXCEPT !.default_shell = "/bin/zsh"]
EBash == Entry({DEFAULT_SHELL}, "", TRUE)

ShellDocs ==
    { Absent,
      Doc("valid", 0, <<EShell>>),
      Doc("valid", 0, <<EShellZsh, EAny>>),
      Doc("valid", 0, <<EAnyZsh>>),
      Doc("valid", 0, <<EAny>>),
      Doc("valid", 0, <<EBash>>),
      Doc("valid", 0, <<EShell, EBash>>) }

InitShell ==
    /\ fs \in Chains(ShellDocs, MaxLaunchDepth)
    /\ sub = "shell"
    /\ dry = TRUE
    /\ inside = FALSE
    /\ host = HostOf(FALSE) /\ options = DefaultOptions /\ args = <<>>
    /\ environ = InitialEnv /\ docker_args = <<>> /\ sh_log = <<>>
    /\ container = "none" /\ sibling = FALSE /\ image = TRUE
    /\ container0 = container
    /\ phase = "none" /\ cmd = ""
    /\ target = ""
    /\ pc = "start"
    /\ path = Len(fs)
    /\ visits = [d \in 1..Len(fs) |-> 0]
    /\ walks = 0
    /\ marker = 0
    /\ res = NoResult
    /\ ops = <<>> /\ printed = <<>>
    /\ result = "none"
    /\ prev = NoInvocation
    /\ peer = NoPeer

NextShell ==
    \/ main_shell
    \/ main_shell_or_else
    \/ main_shell_config
    \/ load_config_match
    \/ load_config_nomatch
    \/ load_config_up
    \/ load_config_root
    \/ run_command
    \/ run_command_dispatch
    \/ docker_run

SpecShell == InitShell /\ [][NextShell]_vars

(***************************************************************************)
(* What the process leaves behind: its exit code and its line on stderr.   *)
(***************************************************************************)
\* the exit code of a process that panics (spawn().expect(..))
PanicCode == 101
\* std::process::exit(127) of passthrough_command
PassthroughFailed == 127
\* the code the engine child exits with when it fails
ChildFailed == 3
\* status.code() is None
NoCode == 0 - 1

\* status.code() of the child
StatusCode(x) ==
    CASE x = "true" -> 0
      [] x = "false" -> ChildFailed
      [] OTHER -> NoCode

\* match status.code() { Some(code) => exit(code), None => exit(0) }
ExitOfChild(x) == IF StatusCode(x) # NoCode THEN StatusCode(x) ELSE 0

\* names of the Error values an invocation can end with
Errors ==
    { "DockerError", "ConfigError", "ConfigMissingField", "CommandError",
      "UnsupportedParameters", "NoConfigFound", "ImageBuildFailed", "NameRequired",
      "ContainerAlreadyRunning", "ContainerStopFailed", "ContainerRemoveFailed",
      "ConfigInvalidValue", "PathError" }

\* main: exit(1) when run() returns an error, 0 when it returns; the codes of
\* execute_command and passthrough_command, which do not return
exit_code ==
    CASE result \in Errors -> 1
      [] result = "ok" -> 0
      [] result = "child_exit" -> ExitOfChild(ops[Len(ops)].res)
      [] result = "panic" -> PanicCode
      [] result = "exit127" -> PassthroughFailed
      [] OTHER -> NoCode

\* main: eprintln!("{}", err), the display of the errors that carry a command
stderr ==
    CASE result = "NoConfigFound" ->
            "No docker image found for '" \o res.command
                \o "' in .contain.yaml or any path above"
      [] result = "NameRequired" ->
            "The '" \o sub
                \o "' command requires a named container. Add 'name:' to your .contain.yaml"
      [] result \in Errors -> result
      [] OTHER -> ""

(***************************************************************************)
(* Nearest-match resolution (C1), malformed documents (C2), termination    *)
(* of the walk (C3).                                                       *)
(***************************************************************************)
Max(S) == CHOOSE x \in S : \A y \in S : y <= x

Dirs == DOMAIN fs

\* the document of d parses and one of its entries matches the command
ParsedMatching(d) == BuildOk(fs[d]) /\ get_config_table(fs[d], cmd) # 0

\* d holds a valid document with an entry matching the command: it parses, passes
\* the version gate, and the matching entry has its required fields
ValidMatching(d) ==
    /\ ParsedMatching(d)
    /\ ~GateFails(fs[d])
    /\ fs[d].entries[get_config_table(fs[d], cmd)].complete

\* the walk cannot pass d: its document parses and fails the version gate, or its
\* first matching entry lacks a required field
Halting(d) ==
    /\ BuildOk(fs[d])
    /\ \/ GateFails(fs[d])
       \/ ParsedMatching(d) /\ ~fs[d].entries[get_config_table(fs[d], cmd)].complete

EntryOf(d) ==
    Configuration(d, get_config_table(fs[d], cmd),
                  fs[d].entries[get_config_table(fs[d], cmd)].name)

\* C1 as stated: whenever some directory of the chain holds a valid document
\* matching the command, load_config returns the entry of the nearest such
\* directory.
C1_Original ==
    (pc = "resolved" /\ \E d \in Dirs : ValidMatching(d))
        => res = EntryOf(Max({d \in Dirs : ValidMatching(d)}))

\* C1 amended: load_config returns the entry of the nearest directory holding a
\* valid matching document unless a nearer directory holds a parseable document
\* that fails the version gate or whose first matching entry lacks a required
\* field, and then it returns the error of the nearest such directory; a returned
\* Configuration is never that of a directory farther than a parseable matching one.
C1_NearestWins ==
    /\ (pc = "resolved" /\ \E d \in Dirs : ValidMatching(d)) =>
            LET n == Max({d \in Dirs : ValidMatching(d)})
                H == {d \in Dirs : d > n /\ Halting(d)}
            IN IF H = {} THEN res = EntryOf(n)
               ELSE res.kind = "err" /\ res.at = Max(H)
    /\ (pc = "resolved" /\ res.kind = "ok") =>
            \A d \in Dirs : d > res.root_path => ~ParsedMatching(d)

\* the walk went up at least one directory and returned the nearer of two
\* directories that both hold a valid matching document
C1_Witness ==
    /\ pc = "resolved" /\ res.kind = "ok"
    /\ res.root_path < Len(fs)
    /\ \E d \in Dirs : d < res.root_path /\ ValidMatching(d)

\* C2 as stated: once load_config has visited a directory whose document fails to
\* parse, it has returned a ConfigError for that directory (it has not gone on to
\* the parent).
C2_Original ==
    \A d \in Dirs :
        (fs[d].kind = "malformed" /\ visits[d] > 0)
            => pc = "resolved" /\ res = Err("ConfigError", d)

\* C3 as stated: the walk visits every ancestor at most once (and so ends at the
\* root with a Configuration or an Error).
C3_Original == \A d \in Dirs : visits[d] <= 1

(***************************************************************************)
(* The image-ensure chain (C4).                                            *)
(***************************************************************************)
Count(op) == Cardinality({i \in DOMAIN ops : ops[i].op = op})
Before(op1, r1, op2) ==
    \A j \in DOMAIN ops :
        ops[j].op = op2 => \E i \in 1..(j - 1) : ops[i] = [op |-> op1, res |-> r1]
ImageOps == {"image_exists", "download_image", "build_image"}
LaunchOps == {"run", "exec", "run -d"}
NoErr == \A i \in DOMAIN ops : ops[i].res # "err"

\* C4: outside a dry run image_exists, download_image and build_image are each
\* called at most once, download_image only after image_exists answered false,
\* build_image only after download_image answered false; the invocation ends
\* with ImageBuildFailed exactly when all three answered false; and run, exec or
\* the detached run is issued only after one of the three answered true.
C4_ImageChain ==
    /\ \A op \in ImageOps : Count(op) <= 1
    /\ Before("image_exists", "false", "download_image")
    /\ Before("download_image", "false", "build_image")
    /\ result = "ImageBuildFailed" <=>
         /\ pc = "done"
         /\ IssuedWith("image_exists", "false")
         /\ IssuedWith("download_image", "false")
         /\ IssuedWith("build_image", "false")
    /\ \A j \in DOMAIN ops :
         ops[j].op \in LaunchOps =>
            \E i \in 1..(j - 1) : ops[i].op \in ImageOps /\ ops[i].res = "true"

\* the chain went through all three steps, the build succeeded, and the new
\* container was run
C4_Witness ==
    /\ pc = "done" /\ sub = "run"
    /\ IssuedWith("image_exists", "false")
    /\ IssuedWith("download_image", "false")
    /\ IssuedWith("build_image", "true")
    /\ IssuedWith("run", "true")

(***************************************************************************)
(* exec or run (C5).                                                       *)
(***************************************************************************)
\* C5 as stated: for run and shell outside passthrough and dry run, once the image
\* is ensured the launcher is about to exec exactly when the configuration has a
\* name and the container of exactly that name is running, and about to run a new
\* container in every other case.
C5_Original ==
    (sub \in {"run", "shell"} /\ ~dry /\ ~inside) =>
        /\ pc = "docker_exec" => (res.name # "" /\ IsUp(container))
        /\ pc = "docker_run" => ~(res.name # "" /\ IsUp(container))

(***************************************************************************)
(* The start/stop cycle (C6).                                              *)
(***************************************************************************)
\* C6 as stated: with the engine answering every call, an up that directly follows
\* a successful up fails with ContainerAlreadyRunning, and a down that directly
\* follows a successful up succeeds and leaves no container of the name.
C6_Original ==
    (pc = "done" /\ NoErr /\ prev = [sub |-> "up", result |-> "ok"]) =>
        /\ sub = "up" => result = "ContainerAlreadyRunning"
        /\ sub = "down" => (result = "ok" /\ container = "none")

(***************************************************************************)
(* down (C7), up on a running container (C8).                              *)
(***************************************************************************)
\* C7 as stated, for an engine that runs no other container of a similar name: a
\* down (outside dry run and passthrough) that returns success, on a name the
\* engine knew a container of, leaves no container of that name.
C7_Original ==
    (sub = "down" /\ ~dry /\ ~inside /\ ~sibling
        /\ pc = "done" /\ result = "ok" /\ container0 # "none")
        => container = "none"

\* C8 as stated: up on a named configuration whose container is running, with the
\* engine answering every call, fails with ContainerAlreadyRunning, having issued
\* nothing but the check, and leaves the container as it was.
C8_Original ==
    (sub = "up" /\ ~dry /\ ~inside /\ pc = "done" /\ NoErr
        /\ res.kind = "ok" /\ res.name # "" /\ IsUp(container0))
        => /\ result = "ContainerAlreadyRunning"
           /\ ops = <<[op |-> "container_exists", res |-> "true"]>>
           /\ container = container0

(***************************************************************************)
(* Resolution errors come before any engine call (C9).                     *)
(***************************************************************************)
ResolutionErrors == {"NoConfigFound", "ConfigError", "ConfigMissingField"}

DryPrinted(s) ==
    CASE s \in {"run", "shell"} -> <<"run">>
      [] s = "up" -> <<"run -d">>
      [] s = "down" -> <<"stop", "rm">>
      [] s = "status" -> <<"ps -a">>

\* C10 as stated: in a dry run no engine operation is issued, and the invocation
\* ends with success whenever resolution succeeded.
C10_Original ==
    dry => /\ ops = <<>>
           /\ (pc = "done" /\ res.kind = "ok") => result = "ok"

\* C10 amended: in a dry run no engine operation is issued; when resolution
\* succeeded, the launcher is not inside a container and (for up, down, status)
\* the configuration has a name, the invocation prints the engine command lines
\* and ends with success.
C10_DryRun ==
    dry => /\ ops = <<>>
           /\ (pc = "done" /\ res.kind = "ok" /\ ~inside
                 /\ (sub \in {"up", "down", "status"} => res.name # ""))
                => (result = "ok" /\ printed = DryPrinted(sub))

\* a dry run of down on a running container: stop and rm are printed, the
\* container still runs
C10_Witness ==
    /\ dry /\ pc = "done" /\ sub = "down" /\ result = "ok"
    /\ printed = <<"stop", "rm">>
    /\ container = "running"

(***************************************************************************)
(* Passthrough (C11), detection (C12).                                     *)
(***************************************************************************)
\* C11 as stated: inside a container run and shell never call the engine, end in
\* the exec of the target command (or its failure), and the environment the
\* target gets differs from the launcher's only by the -e variables: the root-path
\* marker is not set and no var command has set a variable.
C11_Original ==
    (inside /\ sub \in {"run", "shell"}) =>
        /\ ops = <<>>
        /\ pc = "done" =>
            /\ result \in {"exec", "exit127"}
            /\ marker = 0
            /\ environ = SetCliEnv(options.cli_env_variables, InitialEnv)

\* C12: a CONTAIN_PASSTHROUGH that is 1, true or yes in any letter case gives
\* true, one that is 0, false or no gives false, whatever the marker files; else
\* the answer is true exactly when /.dockerenv or /run/.containerenv exists.
Truthy == {"1", "true", "TRUE", "True", "yes", "YES"}
Falsy == {"0", "false", "False", "no", "No"}
C12_Detection ==
    pc # "detect" =>
        inside = IF host.set /\ host.val \in Truthy THEN TRUE
                 ELSE IF host.set /\ host.val \in Falsy THEN FALSE
                 ELSE host.dockerenv \/ host.containerenv

\* CONTAIN_PASSTHROUGH=No on a host with both marker files: not inside
C12_Witness ==
    /\ pc = "start" /\ ~inside
    /\ host = Host(TRUE, "No", TRUE, TRUE)

(***************************************************************************)
(* Exit codes (C13), no configuration found (C14).                         *)
(***************************************************************************)
\* the engine binary could not be invoked for the final run or exec
LaunchFailed ==
    \E i \in DOMAIN ops : ops[i].op \in {"run", "exec"} /\ ops[i].res = "err"

\* C13 as stated: the exit code is that of the final run or exec child (0 when it
\* has none); 1 for every orchestration error, the failure to invoke the engine
\* for the final run or exec included; 127 when the exec of passthrough fails.
C13_Original ==
    pc = "done" =>
        /\ result = "child_exit" => exit_code = ExitOfChild(ops[Len(ops)].res)
        /\ (result \in Errors \/ LaunchFailed) => exit_code = 1
        /\ result = "exit127" => exit_code = PassthroughFailed

\* C14: when no directory of the chain holds a document, load_config returns
\* NoConfigFound with the command it was asked for; an invocation that resolves
\* (every one but run inside a container) ends with that error: the message with
\* the command on stderr, exit code 1, no engine operation, dry run or not.
NoDocument == \A d \in DOMAIN fs : fs[d].kind = "absent"
C14_NoConfigFound ==
    NoDocument =>
        /\ pc = "resolved" => res = NoConfigFound(cmd, 1)
        /\ (pc = "done" /\ ~(inside /\ sub = "run")) =>
            /\ result = "NoConfigFound"
            /\ res = NoConfigFound(cmd, 1)
            /\ cmd = (IF sub = "run" THEN target ELSE ANY)
            /\ stderr = "No docker image found for '" \o cmd
                            \o "' in .contain.yaml or any path above"
            /\ exit_code = 1
            /\ ops = <<>>

\* a dry run of `run ls` two directories deep, no document anywhere
C14_Witness ==
    /\ NoDocument /\ Len(fs) = 2 /\ dry /\ sub = "run" /\ pc = "done"
    /\ stderr = "No docker image found for 'ls' in .contain.yaml or any path above"

(***************************************************************************)
(* First match in declaration order (C15), the version gate (C16).         *)
(***************************************************************************)
\* the commands of the entry hold the command or the wildcard
Holds(e, c) == c \in e.commands \/ "any" \in e.commands
Matching(doc, c) == {i \in DOMAIN doc.entries : Holds(doc.entries[i], c)}
Min(S) == CHOOSE x \in S : \A y \in S : x <= y

\* C15: for every document of the chain and every command, get_config_table
\* gives the first entry in declaration order that holds the command or any (none
\* when no entry does); the entry a Configuration is made of is that entry.
C15_FirstMatch ==
    /\ \A d \in DOMAIN fs : \A c \in {"ls", "cat", "shell", "any", "rm"} :
         get_config_table(fs[d], c) =
            IF Matching(fs[d], c) = {} THEN 0 ELSE Min(Matching(fs[d], c))
    /\ (pc = "resolved" /\ res.kind = "ok") =>
         res.entry = Min(Matching(fs[res.root_path], cmd))

\* ls resolved to an any entry although a later entry names ls
C15_Witness ==
    /\ pc = "resolved" /\ res.kind = "ok" /\ cmd = "ls"
    /\ LET es == fs[res.root_path].entries
       IN /\ es[res.entry].commands = {"any"}
          /\ res.entry > 1
          /\ \E j \in DOMAIN es : j > res.entry /\ "ls" \in es[j].commands

\* C16: a visited directory whose document declares a contain_min_version above
\* the running version ends the walk there with ConfigError, whether or not an
\* entry matches, and no parent is visited.
C16_VersionGate ==
    \A d \in DOMAIN fs :
        (visits[d] > 0 /\ fs[d].kind = "valid" /\ fs[d].minVersion > RunningVersion)
            => /\ pc = "resolved"
               /\ res = Err("ConfigError", d)
               /\ \A p \in DOMAIN fs : p < d => visits[p] = 0

\* the gate stopped the walk at a document without an entry for the command,
\* below a directory that has one
C16_Witness ==
    /\ pc = "resolved" /\ res.kind = "err" /\ res.err = "ConfigError"
    /\ Matching(fs[res.at], cmd) = {}
    /\ res.at > 1 /\ res.at < Len(fs)
    /\ Matching(fs[res.at - 1], cmd) # {}

(***************************************************************************)
(* NameRequired (C17), down with nothing to do (C18), status (C19).        *)
(***************************************************************************)
\* C17: up, down and status on a resolved configuration without name end with
\* NameRequired naming the subcommand and issue no engine operation, inside a
\* container or not, dry run or not, whatever the engine holds.
C17_NameRequired ==
    (sub \in {"up", "down", "status"} /\ pc = "done" /\ res.kind = "ok" /\ res.name = "")
        => /\ result = "NameRequired"
           /\ stderr = "The '" \o sub
                \o "' command requires a named container. Add 'name:' to your .contain.yaml"
           /\ ops = <<>> /\ printed = <<>>

\* up inside a container, with a running container: NameRequired, not
\* UnsupportedParameters
C17_Witness ==
    /\ sub = "up" /\ inside /\ ~dry /\ container = "running"
    /\ pc = "done" /\ result = "NameRequired"

\* C18: with the engine answering every call, a down on a name the engine has no
\* container of returns success after the two queries, issuing neither stop nor
\* rm; and a down that directly follows a successful down succeeds, issues neither
\* stop nor rm and leaves the container as it was.
C18_DownIdempotent ==
    (sub = "down" /\ pc = "done" /\ NoErr) =>
        /\ container0 = "none" =>
            /\ result = "ok" /\ container = "none"
            /\ ops = << [op |-> "container_exists", res |-> "false"],
                        [op |-> "container_is_stopped", res |-> "false"] >>
        /\ prev = [sub |-> "down", result |-> "ok"] =>
            /\ result = "ok" /\ container = container0
            /\ ~Issued("stop") /\ ~Issued("rm")

\* a second down after a successful one, nothing left
C18_Witness ==
    /\ prev = [sub |-> "down", result |-> "ok"]
    /\ sub = "down" /\ pc = "done" /\ result = "ok"
    /\ container = "none" /\ ~Issued("rm")

\* what the engine holds under exactly the configured name
Report ==
    IF container = "none" THEN "not_created"
    ELSE IF IsUp(container) THEN "running" ELSE "stopped"

\* C19: status on a named configuration, outside a container and dry run, with
\* the engine answering, succeeds with the one query; what it reports is
\* not_created exactly when the engine has no container of that name, running
\* when that container is up, stopped otherwise; the container is as before.
C19_Status ==
    (sub = "status" /\ ~inside /\ ~dry /\ pc = "done" /\ NoErr
        /\ res.kind = "ok" /\ res.name # "")
        => /\ result = "ok"
           /\ ops = << [op |-> "get_container_info", res |-> Report] >>
           /\ container = container0

\* status of an exited container while a container of a longer name runs
C19_Witness ==
    /\ sub = "status" /\ pc = "done" /\ result = "ok"
    /\ container = "exited" /\ sibling
    /\ ops = << [op |-> "get_container_info", res |-> "stopped"] >>

(***************************************************************************)
(* The order of the engine arguments (C20).                                *)
(***************************************************************************)
\* the place of each element in the stated order: mode verb 1, container name 2,
\* user mapping 3, cleanup 4, interactive 5, privileged 6, working directory 7,
\* environment 8, workspace mount 9, extra mounts 10, ports 11, image (for exec
\* the container) 12, target command 13, its arguments 14
RECURSIVE Places(_, _, _)
Places(s, i, mounted) ==
    IF i > Len(s) THEN <<>>
    ELSE CASE s[i] \in {"run", "exec", "-d"} -> <<1>> \o Places(s, i + 1, mounted)
           [] s[i] = "--name" -> <<2, 2>> \o Places(s, i + 2, mounted)
           [] s[i] = "-u" -> <<3, 3>> \o Places(s, i + 2, mounted)
           [] s[i] = "--rm" -> <<4>> \o Places(s, i + 1, mounted)
           [] s[i] = "-it" -> <<5>> \o Places(s, i + 1, mounted)
           [] s[i] = "--privileged" -> <<6>> \o Places(s, i + 1, mounted)
           [] s[i] = "-w" -> <<7, 7>> \o Places(s, i + 2, mounted)
           [] s[i] = "-e" -> <<8, 8>> \o Places(s, i + 2, mounted)
           [] s[i] = "--mount" ->
                (IF mounted THEN <<10, 10>> ELSE <<9, 9>>) \o Places(s, i + 2, TRUE)
           [] s[i] = "-p" -> <<11, 11>> \o Places(s, i + 2, mounted)
           [] OTHER -> <<12, 13>> \o [j \in 1..(Len(s) - i - 1) |-> 14]

Ordered(p) == \A i, j \in DOMAIN p : i < j => p[i] <= p[j]

\* C20 as stated: every argument list built for run, run -d and exec has its
\* elements in the stated order, and a run or exec list ends with the target
\* command and its arguments as given.
C20_Original ==
    docker_args # <<>> =>
        /\ Ordered(Places(docker_args, 1, FALSE))
        /\ (Len(docker_args) > 1 /\ docker_args[2] # "-d") =>
              /\ Len(docker_args) > Len(args)
              /\ docker_args[Len(docker_args) - Len(args)] = target
              /\ SubSeq(docker_args, Len(docker_args) - Len(args) + 1, Len(docker_args))
                    = args

(***************************************************************************)
(* The parts of an engine argument list (C21 to C25).                      *)
(***************************************************************************)
\* the list was built by docker_run_detached, by docker_exec, by docker_run
Detached == Len(docker_args) > 1 /\ docker_args[2] = "-d"
Exec == docker_args # <<>> /\ docker_args[1] = "exec"
Ephemeral == docker_args # <<>> /\ ~Detached /\ ~Exec

\* the options of the list: what comes before the image (for exec the container)
OptionPart ==
    SubSeq(docker_args, 1,
           Len(docker_args) - (IF Detached THEN 3 ELSE 2 + Len(args)))

\* the values that follow the flag in the options, in order
RECURSIVE ValuesOf(_, _, _)
ValuesOf(flag, s, i) ==
    IF i >= Len(s) THEN <<>>
    ELSE IF s[i] = flag THEN <<s[i + 1]>> \o ValuesOf(flag, s, i + 2)
    ELSE ValuesOf(flag, s, i + 1)
Has(flag) == \E i \in DOMAIN OptionPart : OptionPart[i] = flag

\* C21: in every run, exec and detached list no user mapping is given when the
\* --root option is set, whatever the flags of the configuration; -u uid:gid is
\* given, once, exactly when neither --root nor the flag root is set.
C21_UserMapping ==
    docker_args # <<>> =>
        /\ options.run_as_root => ~Has("-u")
        /\ ValuesOf("-u", OptionPart, 1) =
              IF ~options.run_as_root /\ "root" \notin EntryAt(res).flags
              THEN <<UidGid>> ELSE <<>>

\* exec with --root on a configuration without the flag root: no user mapping
C21_Witness ==
    /\ Exec /\ options.run_as_root /\ "root" \notin EntryAt(res).flags
    /\ ~Has("-u") /\ pc = "done"

\* the list docker_run builds in this state when keep is given by the option
\* (cli) and by the flag k of the configuration (flag) as stated
KeepList(cli, flag) ==
    docker_run_args([res EXCEPT !.flags = IF flag THEN @ \cup {"k"} ELSE @ \ {"k"}],
                    [options EXCEPT !.keep_container = cli],
                    Interactive, target, args)
NotRm(x) == x # "--rm"

\* C22: in the list of an ephemeral run --rm is given exactly when neither the
\* keep option nor the flag k is set; the list is the same with keep from the
\* option, from the flag and from both, and it is the list without keep less --rm.
C22_Keep ==
    Ephemeral =>
        /\ Has("--rm") <=> ~(options.keep_container \/ "k" \in EntryAt(res).flags)
        /\ docker_args = KeepList(options.keep_container, "k" \in EntryAt(res).flags)
        /\ KeepList(TRUE, FALSE) = KeepList(FALSE, TRUE)
        /\ KeepList(TRUE, TRUE) = KeepList(FALSE, TRUE)
        /\ KeepList(TRUE, TRUE) = SelectSeq(KeepList(FALSE, FALSE), NotRm)
        /\ KeepList(TRUE, TRUE) # KeepList(FALSE, FALSE)

\* a run with the keep option on a configuration that has the flag k as well
C22_Witness ==
    /\ Ephemeral /\ pc = "done" /\ sub = "run"
    /\ options.keep_container /\ "k" \in EntryAt(res).flags
    /\ ~Has("--rm")

\* C23: in the list of an ephemeral run and of a detached launch there is no -p
\* when skip_ports is set, whatever ports the configuration declares; else each
\* declared port is given once, as -p, in the order declared; in both cases the
\* bind mount of the root to the workdir path is given, ahead of the other mounts.
C23_SkipPorts ==
    (Ephemeral \/ Detached) =>
        /\ options.skip_ports => ~Has("-p")
        /\ ValuesOf("-p", OptionPart, 1) =
              IF options.skip_ports THEN <<>> ELSE EntryAt(res).ports
        /\ ValuesOf("--mount", OptionPart, 1) # <<>>
        /\ ValuesOf("--mount", OptionPart, 1)[1] =
              "type=bind,src=" \o RootPathStr(res.root_path) \o ",dst=" \o res.workdir_path

\* up with skip_ports on a configuration that declares two ports
C23_Witness ==
    /\ Detached /\ pc = "done" /\ options.skip_ports
    /\ Len(EntryAt(res).ports) = 2
    /\ ~Has("-p") /\ Has("--mount")

\* C24 as stated: in every run and exec list -it is given if and only if the
\* interactive option is set (shell sets it) or the flags of the configuration
\* hold i.
C24_Original ==
    (Ephemeral \/ Exec) =>
        (Has("-it") <=> (Interactive \/ "i" \in EntryAt(res).flags))

\* every item without the white space at its ends
TrimAll(items) == [i \in DOMAIN items |-> Trim(items[i])]

\* C25 as stated: the -e arguments of every run, exec and detached list are
\* exactly the env entries of the configuration, in the order declared, followed
\* by the -e entries of the command line, in the order given.
C25_Original ==
    docker_args # <<>> =>
        ValuesOf("-e", OptionPart, 1) = res.env_variables \o options.cli_env_variables

\* C25: the -e arguments of every run, exec and detached list are the env entries
\* of the Configuration (expanded when it was resolved), in the order declared,
\* followed by the -e entries of the command line, in the order given, each
\* without the white space at its ends; none is dropped, merged or moved, also
\* when both declare the same variable.
C25_EnvOrder ==
    docker_args # <<>> =>
        /\ ValuesOf("-e", OptionPart, 1) =
              TrimAll(res.env_variables \o options.cli_env_variables)
        /\ res.env_variables = expand_all(EntryAt(res).env, Env(environ, marker)).val

\* an exec whose configuration and command line both set A
C25_Witness ==
    /\ Exec /\ pc = "done"
    /\ ValuesOf("-e", OptionPart, 1) = <<"A=0", "X=1", "H=/home/u", "A=1">>

(***************************************************************************)
(* The working directory in the container (C26).                           *)
(***************************************************************************)
\* the parent of an absolute path: the path less its last component
RECURSIVE LastSlash(_, _)
LastSlash(p, i) == IF i <= 1 \/ SubSeq(p, i, i) = "/" THEN i ELSE LastSlash(p, i - 1)
Parent(p) == IF LastSlash(p, Len(p)) <= 1 THEN "/" ELSE SubSeq(p, 1, LastSlash(p, Len(p)) - 1)

\* b is p or one of its ancestors
RECURSIVE Under(_, _)
Under(p, b) == IF p = b THEN TRUE ELSE IF p = "/" THEN FALSE ELSE Under(Parent(p), b)

\* the directory rel below b
Join(b, rel) == IF rel = "" THEN b ELSE IF b = "/" THEN "/" \o rel ELSE b \o "/" \o rel

Paths == {"/", "/a", "/a/a", "/a/a/a", "/ab", "/a/b", "/b", "/b/a"}

\* C26: the -w of every run and exec list (run and shell) is the workdir path of
\* the configuration, a slash, and the path from the resolved root to the
\* directory the launcher was started in.  strip_prefix gives that path exactly
\* when the root is the directory or one of its ancestors and fails otherwise; an
\* invocation that ends with PathError has issued no engine operation.
C26_Workdir ==
    /\ (Ephemeral \/ Exec) =>
          /\ ValuesOf("-w", OptionPart, 1) =
                << res.workdir_path \o "/" \o Rel(Len(fs) - res.root_path) >>
          /\ Join(RootPathStr(res.root_path), Rel(Len(fs) - res.root_path)) = current_dir
    /\ \A p \in Paths, b \in Paths :
          /\ strip_prefix(p, b).ok <=> Under(p, b)
          /\ strip_prefix(p, b).ok => Join(b, strip_prefix(p, b).val) = p
    /\ (pc = "resolved" /\ res.kind = "ok") => Under(current_dir, RootPathStr(res.root_path))
    /\ result = "PathError" => ops = <<>>

\* a run started one directory below the root of its configuration, which is not /
C26_Witness ==
    /\ Ephemeral /\ sub = "run" /\ pc = "done"
    /\ Len(fs) = 3 /\ res.root_path = 2
    /\ ValuesOf("-w", OptionPart, 1) = <<"/workdir/a">>

(***************************************************************************)
(* Resolving twice (C27) and the order of the var commands (C30).          *)
(***************************************************************************)
\* what the var commands of a stretch of the log gave: whether sh ran them, and
\* their exit codes and outputs
Outputs(l) ==
    [j \in DOMAIN l |-> [invoked |-> l[j].invoked, code |-> l[j].code,
                         stdout |-> l[j].stdout]]

\* the second call of load_config has returned
ResolvedTwice == pc = "resolved" /\ walks = 2 /\ prev.sub = "resolve"

\* the part of the log the second call wrote
SecondLog == SubSeq(sh_log, Len(prev.log) + 1, Len(sh_log))

\* C27: a second call of load_config from the same directory with the same
\* command, in the process environment the first call left (its var-declared
\* variables; the marker is rewritten by every call), returns the same
\* Configuration, field for field, or the same error, whenever the var commands
\* gave the same outputs in both calls.
C27_SameTwice ==
    (ResolvedTwice /\ Outputs(SecondLog) = Outputs(prev.log)) => res = prev.result

\* C27 witness: the second call returned a Configuration although the first had
\* overwritten a variable the process inherited, which an env entry refers to
C27_Witness ==
    /\ ResolvedTwice
    /\ Outputs(SecondLog) = Outputs(prev.log)
    /\ res.kind = "ok" /\ res = prev.result
    /\ prev.log # <<>>
    /\ prev.environ # InitialEnv
    /\ prev.environ["TAG"] # InitialEnv["TAG"]
    /\ \E j \in DOMAIN res.env_variables : res.env_variables[j] = "T=" \o environ["TAG"]

\* the entry the first call of load_config matched, and its directory
Matched == fs[marker].entries[get_config_table(fs[marker], cmd)]

\* the environment the claim requires after the first j var declarations of the
\* matched entry: the one the process started with, and each variable set to
\* the trimmed output of its command, expanded in the environment before it
RECURSIVE EnvAfter(_)
EnvAfter(j) ==
    IF j = 0 THEN InitialEnv
    ELSE LET d == Matched.var[j]
             before == Env(EnvAfter(j - 1), marker)
         IN set_var(EnvAfter(j - 1), d.name,
                    Trim(Sh(expand_env(d.command, before).val).stdout))

\* the first call has returned from a matched entry that declares vars
ResolvedVars ==
    /\ pc = "resolved" /\ walks = 1
    /\ res.kind = "ok" \/ res.err \in {"ConfigInvalidValue", "CommandError"}
    /\ Matched.var # <<>>

\* C30: the var commands of the matched entry are handed to sh one after the
\* other in declaration order, each expanded in an environment that holds the
\* trimmed outputs of all the vars before it; a Configuration is returned only
\* after all of them ran, the process environment then holds every value, and
\* env, build_args and the mounts are expanded in that environment.  The calls
\* stop before a var only when its command cannot be expanded in the environment
\* of that moment, or when sh could not be invoked for the one before.
C30_VarOrder ==
    ResolvedVars =>
        /\ Len(sh_log) <= Len(Matched.var)
        /\ \A j \in DOMAIN sh_log :
              /\ sh_log[j].name = Matched.var[j].name
              /\ sh_log[j].command
                    = expand_env(Matched.var[j].command, Env(EnvAfter(j - 1), marker)).val
              /\ sh_log[j].invoked => sh_log[j].stdout = Sh(sh_log[j].command).stdout
              /\ j < Len(sh_log) => sh_log[j].invoked
        /\ (sh_log # <<>> /\ sh_log[Len(sh_log)].invoked)
              => environ = EnvAfter(Len(sh_log))
        /\ (Len(sh_log) < Len(Matched.var)
                /\ (sh_log # <<>> => sh_log[Len(sh_log)].invoked))
              => ~expand_env(Matched.var[Len(sh_log) + 1].command,
                             Env(EnvAfter(Len(sh_log)), marker)).ok
        /\ res.kind = "ok" =>
              LET n == Len(Matched.var)
                  e == Env(EnvAfter(n), marker)
              IN /\ Len(sh_log) = n
                 /\ environ = EnvAfter(n)
                 /\ res.env_variables = expand_all(Matched.env, e).val
                 /\ res.build_args = expand_all(Matched.build_args, e).val
                 /\ res.extra_mounts = expand_mounts(Matched.mounts, e).val

\* C30 witness: a later var command was run with the value of an earlier one in
\* it, and env, build_args and a mount hold values the vars set
C30_Witness ==
    /\ ResolvedVars /\ res.kind = "ok"
    /\ Len(sh_log) = 2
    /\ sh_log[1].name = "REV" /\ sh_log[2].command = "echo v7"
    /\ environ["TAG"] = "v7"
    /\ res.env_variables = <<"T=v7", "R=7">>
    /\ res.build_args = <<"B=7">>
    /\ res.extra_mounts = <<"type=bind,src=/home/u/c,dst=/c/7,ro">>

(***************************************************************************)
(* up on a stopped container (C28) and the two kinds of engine failure     *)
(* (C29).                                                                  *)
(***************************************************************************)
\* the states of a container that exists and is not running
StoppedStates == {"exited", "created"}

\* the calls of the log that are not queries about containers
Commands == SelectSeq(ops, LAMBDA o : o.op \notin {"container_exists", "container_is_stopped",
                                                    "get_container_info"})

\* an up that reached the engine, all of whose engine calls could be invoked, on a
\* named configuration whose container was in one of the given states
UpOn(states) ==
    /\ sub = "up" /\ ~dry /\ ~inside /\ pc = "done"
    /\ res.kind = "ok" /\ res.name = ContainerName
    /\ container0 \in states
    /\ \A i \in DOMAIN ops : ops[i].res # "err"

\* one engine start and nothing else; on success the container is running
StartOnly ==
    /\ Len(Commands) = 1 /\ Commands[1].op = "start"
    /\ result = "ok" => container = "running"

\* C28 as stated: up on a named configuration whose container exists and is
\* stopped issues one engine start and nothing else (no image exists, pull or
\* build, no fresh run), and on success the container is running.
C28_Original == UpOn(StoppedStates) => StartOnly

\* the engine call an invocation ended on
LastCall == ops[Len(ops)]

\* the invocation ended and its last engine call could not be invoked
EndedOnInvocationFailure == pc = "done" /\ ops # <<>> /\ LastCall.res = "err"

\* the invocation ended with an error after an engine call that was invoked and
\* reported a failure
EndedOnEngineFailure ==
    /\ pc = "done" /\ ops # <<>> /\ LastCall.res = "false"
    /\ result \in Errors

\* C29 as stated: an engine call that cannot be invoked ends the invocation with
\* CommandError, and one that was invoked and failed never does: the two causes
\* are told apart by the error variant, for every engine call, the stop and the rm
\* of down and the final run and exec of run among them.
C29_Original ==
    /\ EndedOnInvocationFailure => result = "CommandError"
    /\ EndedOnEngineFailure => result # "CommandError"

(***************************************************************************)
(* A var command that fails (C31).                                         *)
(***************************************************************************)
\* the j-th var command of the log failed: sh could not be invoked, or the
\* command ended with a code other than 0
Failed(j) == ~sh_log[j].invoked \/ sh_log[j].code # 0

\* the first call of load_config has returned
ResolvedOnce == pc = "resolved" /\ walks = 1

\* C31 as stated: when a var command of the matched entry fails, load_config
\* returns CommandError and no Configuration, no later var command is run, and
\* the variable of the failed command is not set (it keeps the value it had,
\* or none).
C31_Original ==
    ResolvedOnce =>
        \A j \in DOMAIN sh_log :
            Failed(j) =>
                /\ res.kind = "err" /\ res.err = "CommandError"
                /\ j = Len(sh_log)
                /\ IF sh_log[j].name \in DOMAIN InitialEnv
                   THEN environ[sh_log[j].name] = InitialEnv[sh_log[j].name]
                   ELSE sh_log[j].name \notin DOMAIN environ

(***************************************************************************)
(* What one invocation does at most once (C32).                            *)
(***************************************************************************)
\* the engine calls that end an invocation: the launch, the exec, the start, and
\* the rm of down
TerminalOps == {"run", "exec", "run -d", "start", "rm"}

Terminal == SelectSeq(ops, LAMBDA o : o.op \in TerminalOps)

\* C32 as stated: an invocation, of whatever subcommand, walks upward for a
\* configuration at most once and runs no var command twice, asks at most once
\* whether the image exists (and pulls and builds at most once), and issues at
\* most one terminal engine call.
C32_Original ==
    /\ walks <= 1
    /\ \A i, j \in DOMAIN sh_log : sh_log[i].name = sh_log[j].name => i = j
    /\ Count("image_exists") <= 1 /\ Count("download_image") <= 1
    /\ Count("build_image") <= 1
    /\ Len(Terminal) <= 1

(***************************************************************************)
(* Two invocations at the same time (C33).                                 *)
(***************************************************************************)
\* the call op with the answer r is in the log l
In(l, op, r) == \E i \in DOMAIN l : l[i] = [op |-> op, res |-> r]

\* the two invocations of the running pair
Pair == {Context, peer}

\* an up that passed both checks (no running container, no stopped container of
\* the name) and whose launch the engine refused
RejectedUp(l) ==
    /\ In(l, "container_exists", "false")
    /\ In(l, "container_is_stopped", "false")
    /\ In(l, "run -d", "false")

\* C33: nothing ties a check to the act that follows it.  An up that passed its
\* checks and whose launch the engine refuses, because the name was taken in
\* between, ends with DockerError; ContainerAlreadyRunning is the result only of
\* an up whose own check found the container running.  A run that found the
\* container running goes on to exec without another look, and when the
\* container is gone by then the exec fails in the engine.
C33_CheckThenAct ==
    \A c \in Pair :
        /\ (c.sub = "up" /\ c.pc = "done") =>
              /\ RejectedUp(c.ops) => c.result = "DockerError"
              /\ c.result = "ContainerAlreadyRunning"
                    <=> In(c.ops, "container_exists", "true")
        /\ (c.sub = "run" /\ c.pc = "docker_exec") =>
              c.ops[Len(c.ops)] = [op |-> "container_exists", res |-> "true"]
        /\ (c.sub = "run" /\ c.pc = "done" /\ In(c.ops, "exec", "false")) =>
              /\ In(c.ops, "container_exists", "true")
              /\ c.result = "child_exit"
              /\ container # "running" \/ c.container0 # "running"

\* C33 witness: of two ups started while no container of the name existed, both
\* passed the checks, one launched and the other was refused and ended with
\* DockerError; then a run found the container running and is about to exec, and
\* a down started at the same time has stopped and removed the container
C33_Witness ==
    /\ prev # NoInvocation
    /\ prev.sub = <<"up", "up">>
    /\ prev.result = <<"DockerError", "ok">>
    /\ RejectedUp(prev.ops[1])
    /\ In(prev.ops[2], "container_exists", "false")
    /\ In(prev.ops[2], "container_is_stopped", "false")
    /\ In(prev.ops[2], "run -d", "true")
    /\ sub = "run" /\ pc = "docker_exec"
    /\ In(ops, "container_exists", "true")
    /\ peer.sub = "down" /\ peer.pc = "done" /\ peer.result = "ok"
    /\ In(peer.ops, "stop", "true") /\ In(peer.ops, "rm", "true")
    /\ container = "none"

(***************************************************************************)
(* container_exists and the containers that run (C34).                     *)
(***************************************************************************)
\* the invocation has just asked container_exists and got an answer
AnsweredExists ==
    /\ ops # <<>>
    /\ ops[Len(ops)].op = "container_exists"
    /\ ops[Len(ops)].res # "err"

\* C34 as stated: container_exists(name) answers true exactly when a container of
\* exactly that name is running, whatever else runs: also when another running
\* container has a name that contains the name.
C34_Original ==
    AnsweredExists => ops[Len(ops)].res = B(IsUp(container))

(***************************************************************************)
(* The name of the container in a launch (C35).                            *)
(***************************************************************************)
\* C35 as stated: in every launch list, ephemeral and detached, --name <name> is
\* given exactly when the configuration declares a name and skip_name is not
\* set; with skip_name no launch is bound to the configured name.
C35_Original ==
    (Ephemeral \/ Detached) =>
        /\ Has("--name") <=> (res.name # "" /\ ~options.skip_name)
        /\ Has("--name") => ValuesOf("--name", OptionPart, 1) = <<res.name>>

(***************************************************************************)
(* The root-path marker during resolution (C36).                           *)
(***************************************************************************)
\* a call of load_config for the directory it was given: one more visit of it
Visit == /\ pc = "load_config"
         /\ visits' = [visits EXCEPT ![path] = @ + 1]

\* the marker holds the directory of the call that returned
LastVisited == marker = path /\ visits[marker] > 0

\* the var commands of the log that read the marker were handed the directory of
\* the matched document
MarkerAtVarTime ==
    \A j \in DOMAIN sh_log :
        sh_log[j].name = "ROOT" =>
            /\ sh_log[j].command = "echo " \o RootPathStr(marker)
            /\ BuildOk(fs[marker]) /\ get_config_table(fs[marker], cmd) # 0
            /\ Matched.var[1].name = "ROOT"

\* C36: every call of load_config writes the marker, once, to the directory it
\* visits; a var command of a document runs while the marker is the directory of
\* that document; and when a Configuration is returned the marker is its
\* root_path.
C36_Marker ==
    /\ [](pc = "resolved" => LastVisited /\ MarkerAtVarTime
                             /\ (res.kind = "ok" => marker = res.root_path))
    /\ [][Visit => marker' = path]_vars
    /\ [][marker' # marker => Visit]_vars

\* C36 witness: the matched document is in an ancestor of the start directory;
\* its var command was handed the ancestor, and the Configuration has it as root
C36_Witness ==
    /\ pc = "resolved" /\ walks = 1
    /\ res.kind = "ok" /\ res.root_path = 1 /\ Len(fs) = 2
    /\ marker = 1
    /\ Len(sh_log) = 1 /\ sh_log[1].name = "ROOT" /\ sh_log[1].command = "echo /"
    /\ res.env_variables = <<"R=/">>

(***************************************************************************)
(* The root of a Configuration and the directory of the invocation (C37).  *)
(***************************************************************************)
\* C37: the root_path of every Configuration load_config returns is the
\* directory the walk started in or one of its ancestors; so in run_command the
\* directory of the invocation is under the root, strip_prefix succeeds, and no
\* invocation ends with PathError.
C37_RootIsAncestor ==
    /\ (pc = "resolved" /\ res.kind = "ok") =>
          /\ res.root_path \in 1..Len(fs)
          /\ Under(RootPathStr(Len(fs)), RootPathStr(res.root_path))
          /\ phase = "run" =>
                /\ Under(current_dir, RootPathStr(res.root_path))
                /\ relative_path(res).ok
                /\ Join(RootPathStr(res.root_path), relative_path(res).val) = current_dir
    /\ result # "PathError"

\* C37 witness: run found its configuration in the parent of the directory it
\* was started in and went on past the path computation to the engine
C37_Witness ==
    /\ sub = "run" /\ pc = "done" /\ result = "child_exit"
    /\ Len(fs) = 2 /\ res.kind = "ok" /\ res.root_path = 1
    /\ relative_path(res) = Expanded("a")
    /\ ops # <<>>

(***************************************************************************)
(* The entry of the shell (C38).                                           *)
(***************************************************************************)
NoEntry == <<0, 0>>

\* the entry load_config(d, command) returns, as directory and position in the
\* document, for documents all of whose entries are complete
RECURSIVE Found(_, _)
Found(d, command) ==
    IF BuildOk(fs[d]) /\ get_config_table(fs[d], command) # 0
    THEN <<d, get_config_table(fs[d], command)>>
    ELSE IF d > 1 THEN Found(d - 1, command)
    ELSE NoEntry

\* the entry main takes default_shell from: that of shell, else that of any
ShellEntry ==
    IF Found(Len(fs), "shell") # NoEntry THEN Found(Len(fs), "shell")
    ELSE Found(Len(fs), ANY)

\* C38 as stated: the entry that gives default_shell is the entry the shell is
\* launched from, and once that entry was found the invocation does not end
\* with NoConfigFound.
C38_Original ==
    (sub = "shell" /\ pc = "done" /\ ShellEntry # NoEntry) =>
        /\ result # "NoConfigFound"
        /\ res.kind = "ok" => <<res.root_path, res.entry>> = ShellEntry

(***************************************************************************)
(* A launch under a name that is taken (C39).                              *)
(***************************************************************************)
\* run or shell, not a dry run, has handed an ephemeral launch with --name to
\* the engine
NamedLaunch ==
    /\ sub \in {"run", "shell"} /\ ~dry
    /\ Ephemeral /\ Has("--name")
    /\ \E i \in DOMAIN ops : ops[i].op = "run"

\* C39 as stated: outside a dry run, run and shell launch with --name N only
\* when the engine holds no container named N, running, exited or created.
C39_Original ==
    NamedLaunch =>
        /\ ValuesOf("--name", OptionPart, 1) = <<ContainerName>>
        /\ container = "none"

====
